---- MODULE Spec2Model ----
(***************************************************************************)
(* Bronze -> silver transformation (datareference/bronze_to_silver.py) and *)
(* JSON ingestion (datareference/import_json.py), with their two ledgers.  *)
(*                                                                         *)
(* Every connection runs with autocommit, so each SQL statement is its own *)
(* transaction: a step of the model ends with at most one write.           *)
(* Faults of the stores are inputs of the steps: a failed ledger lookup, a *)
(* failed fingerprint computation, a failed CREATE TABLE, a failed bulk    *)
(* copy, a failed row insert, and the death of the process at any step; a  *)
(* document may hold bytes that are no JSON.  Ledger upserts, DROP TABLE,  *)
(* GRANT and the metadata queries are taken to reach the store.            *)
(***************************************************************************)
EXTENDS Integers, Sequences, FiniteSets, TLC

VARIABLES docs,             \* the blob container: blob name -> document
          bronze,           \* bronze_db: table name -> table (or Absent)
          silver,           \* silver_db: target name -> table (or Absent)
          iledger,          \* bronze_db public.import_tracking: a set of rows
          tledger,          \* silver_db public.transformation_tracking: a set of rows
          memory_tracking,  \* import_json.memory_tracking of the running process
          failed_imports,   \* import_json.failed_imports of the running process
          pc,               \* position of the running process ("idle": none runs)
          loc,              \* its local variables
          ev                \* the inputs and the decision of the last step taken

vars == <<docs, bronze, silver, iledger, tledger, memory_tracking, failed_imports, pc, loc, ev>>

ingest_vars == <<docs, iledger, memory_tracking, failed_imports>>

\* ------------------------------------------------------------------ bounds
MaxRows == 2

\* ------------------------------------------------------------- vocabulary
Schema == "spells"
FusionTarget == "fusion_spells"
CopyTable == "other"
TableOrder == <<"spells_phb", "spells_xge", "other">>
Tables == {TableOrder[i] : i \in 1..Len(TableOrder)}
Targets == {FusionTarget, CopyTable}

NULL == "NULL"

IdCol == <<"id", "integer">>
ShapeA == <<IdCol, <<"name", "text">>>>
ShapeB == <<IdCol, <<"name", "text">>, <<"level", "integer">>>>
ShapeIdOnly == <<IdCol>>
ShapeNone == <<>>

Absent == [exists |-> FALSE, acc |-> FALSE, cols |-> <<>>, rows |-> <<>>]

\* A row: its id, the value g its populated columns hold, and those columns
\* (keys); the other columns are NULL.
Cell(row, c) ==
    IF c = "id" THEN row.id
    ELSE IF c \notin row.keys THEN NULL
    ELSE IF c \in {"created_at", "updated_at"} THEN "CURRENT_TIMESTAMP"
    ELSE row.v

\* n rows with ids 1..n, every column besides id populated
RowsOf(cols, n, g) ==
    [i \in 1..n |-> [id |-> i, v |-> g,
                     keys |-> {cols[k][1] : k \in 1..Len(cols)} \ {"id"}]]

Table(cols, n, g, acc) ==
    [exists |-> TRUE, acc |-> acc, cols |-> cols, rows |-> RowsOf(cols, n, g)]

\* the states a bronze table can be left in by ingestion and by the DBA
BronzeVersions(t) ==
    IF t = "spells_phb" THEN
        {Absent} \cup {Table(ShapeA, n, "v0", TRUE) : n \in 1..MaxRows}
        \cup {Table(ShapeA, 1, "v1", TRUE), Table(ShapeIdOnly, 1, "v0", TRUE)}
    ELSE IF t = "spells_xge" THEN
        {Absent, Table(ShapeB, 1, "v0", TRUE), Table(ShapeB, 1, "v0", FALSE)}
    ELSE
        {Absent} \cup {Table(ShapeA, n, "v0", TRUE) : n \in 1..MaxRows}
        \cup {Table(ShapeA, 1, "v1", TRUE), Table(ShapeA, 1, "v0", FALSE),
              Table(ShapeNone, 0, "v0", TRUE)}

\* The catalogues explored: the schema holds prefixed tables only, or the other
\* table only, or one prefixed table next to the other table.
Family(b) ==
    IF ~b["other"].exists THEN "fusion"
    ELSE IF ~b["spells_phb"].exists /\ ~b["spells_xge"].exists THEN "copy"
    ELSE "mixed"

BronzeStates ==
    {b \in [{"spells_phb", "spells_xge", "other"} ->
               BronzeVersions("spells_phb") \cup BronzeVersions("spells_xge")
               \cup BronzeVersions("other")] :
        /\ \A t \in {"spells_phb", "spells_xge", "other"} : b[t] \in BronzeVersions(t)
        /\ Family(b) = "fusion" => b["spells_phb"].exists
        /\ Family(b) = "mixed" =>
              /\ b["spells_phb"] = Table(ShapeA, 1, "v0", TRUE)
              /\ ~b["spells_xge"].exists
              /\ b["other"] \in {Table(ShapeA, n, "v0", TRUE) : n \in 1..MaxRows}}

\* ------------------------------------------------------------ sequences
RECURSIVE SeqToSet(_)
SeqToSet(s) == IF s = <<>> THEN {} ELSE {Head(s)} \cup SeqToSet(Tail(s))

ColNames(cols) == {cols[i][1] : i \in 1..Len(cols)}

IsNotId(c) == c[1] # "id"

\* ---------------------------------------------------------------- strings
\* A string is the sequence of its characters.  The characters in use:
LowerCase == {"a", "b", "c", "d", "e", "f", "g", "h", "i", "j", "k", "l", "m",
              "n", "o", "p", "q", "r", "s", "t", "u", "v", "w", "x", "y", "z"}
UpperCase == {"A", "B", "C", "D", "E", "F", "G", "H", "I", "J", "K", "L", "M",
              "N", "O", "P", "Q", "R", "S", "T", "U", "V", "W", "X", "Y", "Z"}
Digits == {"3"}
Punctuation == {"-", "_", " ", "'", "."}

\* str.isalnum, str.isdigit and str.lower, character by character
isalnum(c) == c \in LowerCase \cup UpperCase \cup Digits

isdigit(c) == c \in Digits

Alphabet == <<"a", "b", "c", "d", "e", "f", "g", "h", "i", "j", "k", "l", "m",
              "n", "o", "p", "q", "r", "s", "t", "u", "v", "w", "x", "y", "z">>
ALPHABET == <<"A", "B", "C", "D", "E", "F", "G", "H", "I", "J", "K", "L", "M",
              "N", "O", "P", "Q", "R", "S", "T", "U", "V", "W", "X", "Y", "Z">>

LowerChar(c) ==
    IF c \in UpperCase THEN Alphabet[CHOOSE k \in 1..26 : ALPHABET[k] = c] ELSE c

UpperChar(c) ==
    IF c \in LowerCase THEN ALPHABET[CHOOSE k \in 1..26 : Alphabet[k] = c] ELSE c

lower(name) == [i \in 1..Len(name) |-> LowerChar(name[i])]

upper(name) == [i \in 1..Len(name) |-> UpperChar(name[i])]

\* sub in name
contains(name, sub) ==
    \E i \in 1..(Len(name) - Len(sub) + 1) : SubSeq(name, i, i + Len(sub) - 1) = sub

\* name.startswith(prefix)
startswith(name, prefix) ==
    Len(name) >= Len(prefix) /\ SubSeq(name, 1, Len(prefix)) = prefix

\* name.replace(old, ''): every occurrence of old, left to right
RECURSIVE replace(_, _)
replace(name, old) ==
    IF name = <<>> THEN <<>>
    ELSE IF startswith(name, old) THEN replace(SubSeq(name, Len(old) + 1, Len(name)), old)
    ELSE <<Head(name)>> \o replace(Tail(name), old)

\* the names of the model, spelled out
Spellings == {
    <<"spells-phb.json", <<"s", "p", "e", "l", "l", "s", "-", "p", "h", "b", ".", "j", "s", "o", "n">>>>,
    <<"spells_phb.json", <<"s", "p", "e", "l", "l", "s", "_", "p", "h", "b", ".", "j", "s", "o", "n">>>>,
    <<"other.json", <<"o", "t", "h", "e", "r", ".", "j", "s", "o", "n">>>>,
    <<"spells-phb", <<"s", "p", "e", "l", "l", "s", "-", "p", "h", "b">>>>,
    <<"spells_phb", <<"s", "p", "e", "l", "l", "s", "_", "p", "h", "b">>>>,
    <<"spells_xge", <<"s", "p", "e", "l", "l", "s", "_", "x", "g", "e">>>>,
    <<"other", <<"o", "t", "h", "e", "r">>>>,
    <<"spells", <<"s", "p", "e", "l", "l", "s">>>>,
    <<"main", <<"m", "a", "i", "n">>>>,
    <<"name", <<"n", "a", "m", "e">>>>,
    <<"id", <<"i", "d">>>>,
    <<"json_id", <<"j", "s", "o", "n", "_", "i", "d">>>>,
    <<"data", <<"d", "a", "t", "a">>>>,
    <<"c_empty", <<"c", "_", "e", "m", "p", "t", "y">>>>,
    <<"current", <<"c", "u", "r", "r", "e", "n", "t">>>>,
    <<"date", <<"d", "a", "t", "e">>>>,
    <<"current_date", <<"c", "u", "r", "r", "e", "n", "t", "_", "d", "a", "t", "e">>>>,
    <<"c_current_date", <<"c", "_", "c", "u", "r", "r", "e", "n", "t", "_", "d", "a", "t", "e">>>>,
    <<"text", <<"t", "e", "x", "t">>>>,
    <<"jsonb", <<"j", "s", "o", "n", "b">>>>,
    <<"integer", <<"i", "n", "t", "e", "g", "e", "r">>>>,
    <<"bigint", <<"b", "i", "g", "i", "n", "t">>>>,
    <<"smallint", <<"s", "m", "a", "l", "l", "i", "n", "t">>>>,
    <<"interval", <<"i", "n", "t", "e", "r", "v", "a", "l">>>>,
    <<"boolean", <<"b", "o", "o", "l", "e", "a", "n">>>>,
    <<"timestamp without time zone", <<"t", "i", "m", "e", "s", "t", "a", "m", "p", " ", "w", "i", "t", "h", "o", "u", "t", " ", "t", "i", "m", "e", " ", "z", "o", "n", "e">>>>,
    <<"TEXT", <<"T", "E", "X", "T">>>>,
    <<"JSONB", <<"J", "S", "O", "N", "B">>>>,
    <<"BIGINT", <<"B", "I", "G", "I", "N", "T">>>>,
    <<"INTEGER", <<"I", "N", "T", "E", "G", "E", "R">>>>,
    <<"SERIAL", <<"S", "E", "R", "I", "A", "L">>>>}

Spell(s) == (CHOOSE p \in Spellings : p[1] = s)[2]

Unspell(name) == (CHOOSE p \in Spellings : p[2] = name)[1]

\* sanitize_name, lines 65-81
reserved == {
    <<"a", "l", "l">>, <<"a", "n", "a", "l", "y", "s", "e">>, <<"a", "n", "a", "l", "y", "z", "e">>,
    <<"a", "n", "d">>, <<"a", "n", "y">>, <<"a", "r", "r", "a", "y">>, <<"a", "s">>,
    <<"a", "s", "c">>, <<"a", "s", "y", "m", "m", "e", "t", "r", "i", "c">>,
    <<"a", "u", "t", "h", "o", "r", "i", "z", "a", "t", "i", "o", "n">>,
    <<"b", "e", "t", "w", "e", "e", "n">>, <<"b", "i", "n", "a", "r", "y">>, <<"b", "o", "t", "h">>,
    <<"c", "a", "s", "e">>, <<"c", "a", "s", "t">>, <<"c", "h", "e", "c", "k">>,
    <<"c", "o", "l", "l", "a", "t", "e">>, <<"c", "o", "l", "u", "m", "n">>,
    <<"c", "o", "n", "s", "t", "r", "a", "i", "n", "t">>, <<"c", "r", "e", "a", "t", "e">>,
    <<"c", "r", "o", "s", "s">>,
    <<"c", "u", "r", "r", "e", "n", "t", "_", "c", "a", "t", "a", "l", "o", "g">>,
    <<"c", "u", "r", "r", "e", "n", "t", "_", "d", "a", "t", "e">>,
    <<"c", "u", "r", "r", "e", "n", "t", "_", "r", "o", "l", "e">>,
    <<"c", "u", "r", "r", "e", "n", "t", "_", "s", "c", "h", "e", "m", "a">>,
    <<"c", "u", "r", "r", "e", "n", "t", "_", "t", "i", "m", "e">>,
    <<"c", "u", "r", "r", "e", "n", "t", "_", "t", "i", "m", "e", "s", "t", "a", "m", "p">>,
    <<"c", "u", "r", "r", "e", "n", "t", "_", "u", "s", "e", "r">>,
    <<"d", "e", "f", "a", "u", "l", "t">>, <<"d", "e", "f", "e", "r", "r", "a", "b", "l", "e">>,
    <<"d", "e", "s", "c">>, <<"d", "i", "s", "t", "i", "n", "c", "t">>, <<"d", "o">>,
    <<"e", "l", "s", "e">>, <<"e", "n", "d">>, <<"e", "x", "c", "e", "p", "t">>,
    <<"f", "a", "l", "s", "e">>, <<"f", "e", "t", "c", "h">>, <<"f", "o", "r">>,
    <<"f", "o", "r", "e", "i", "g", "n">>, <<"f", "r", "e", "e", "z", "e">>, <<"f", "r", "o", "m">>,
    <<"f", "u", "l", "l">>, <<"g", "r", "a", "n", "t">>, <<"g", "r", "o", "u", "p">>,
    <<"h", "a", "v", "i", "n", "g">>, <<"i", "l", "i", "k", "e">>, <<"i", "n">>,
    <<"i", "n", "i", "t", "i", "a", "l", "l", "y">>, <<"i", "n", "n", "e", "r">>,
    <<"i", "n", "t", "e", "r", "s", "e", "c", "t">>, <<"i", "n", "t", "o">>, <<"i", "s">>,
    <<"i", "s", "n", "u", "l", "l">>, <<"j", "o", "i", "n">>, <<"l", "a", "t", "e", "r", "a", "l">>,
    <<"l", "e", "a", "d", "i", "n", "g">>, <<"l", "e", "f", "t">>, <<"l", "i", "k", "e">>,
    <<"l", "i", "m", "i", "t">>, <<"l", "o", "c", "a", "l", "t", "i", "m", "e">>,
    <<"l", "o", "c", "a", "l", "t", "i", "m", "e", "s", "t", "a", "m", "p">>,
    <<"n", "a", "t", "u", "r", "a", "l">>, <<"n", "o", "t">>, <<"n", "o", "t", "n", "u", "l", "l">>,
    <<"n", "u", "l", "l">>, <<"o", "f", "f", "s", "e", "t">>, <<"o", "n">>, <<"o", "n", "l", "y">>,
    <<"o", "r">>, <<"o", "r", "d", "e", "r">>, <<"o", "u", "t", "e", "r">>, <<"o", "v", "e", "r">>,
    <<"o", "v", "e", "r", "l", "a", "p", "s">>, <<"p", "l", "a", "c", "i", "n", "g">>,
    <<"p", "r", "i", "m", "a", "r", "y">>, <<"r", "e", "f", "e", "r", "e", "n", "c", "e", "s">>,
    <<"r", "e", "t", "u", "r", "n", "i", "n", "g">>, <<"r", "i", "g", "h", "t">>,
    <<"s", "e", "l", "e", "c", "t">>,
    <<"s", "e", "s", "s", "i", "o", "n", "_", "u", "s", "e", "r">>,
    <<"s", "i", "m", "i", "l", "a", "r">>, <<"s", "o", "m", "e">>,
    <<"s", "y", "m", "m", "e", "t", "r", "i", "c">>, <<"t", "a", "b", "l", "e">>,
    <<"t", "h", "e", "n">>, <<"t", "o">>, <<"t", "r", "a", "i", "l", "i", "n", "g">>,
    <<"t", "r", "u", "e">>, <<"u", "n", "i", "o", "n">>, <<"u", "n", "i", "q", "u", "e">>,
    <<"u", "s", "e", "r">>, <<"u", "s", "i", "n", "g">>, <<"v", "a", "r", "i", "a", "d", "i", "c">>,
    <<"v", "e", "r", "b", "o", "s", "e">>, <<"w", "h", "e", "n">>, <<"w", "h", "e", "r", "e">>,
    <<"w", "i", "n", "d", "o", "w">>, <<"w", "i", "t", "h">>}

\* faulty variant of sanitize_name: a reserved word is let through
sanitize_name_NoReserved(name) ==
    LET replaced == [i \in 1..Len(name) |-> IF isalnum(name[i]) THEN name[i] ELSE "_"]
    IN IF replaced = <<>> THEN <<"c", "_", "e", "m", "p", "t", "y">>
       ELSE IF isdigit(replaced[1]) THEN lower(<<"c", "_">> \o replaced)
       ELSE lower(replaced)

\* lines 84-92
sanitize_name(name) ==
    LET replaced == [i \in 1..Len(name) |-> IF isalnum(name[i]) THEN name[i] ELSE "_"]
    IN IF replaced = <<>> THEN lower(<<"c", "_", "e", "m", "p", "t", "y">>)
       ELSE IF isdigit(replaced[1]) \/ lower(replaced) \in reserved
            THEN lower(<<"c", "_">> \o replaced)
       ELSE lower(replaced)

\* -------------------------------------------------------------- metadata
\* information_schema.tables of the schema, in discovery order
ListTables(b) == SelectSeq(TableOrder, LAMBDA t : b[t].exists)

\* table.startswith(f"{schema}_")
StartsWithSchema(t) == startswith(Spell(t), Spell(Schema) \o <<"_">>)

get_all_tables(b) ==
    [schema_prefix_tables |-> SelectSeq(ListTables(b), StartsWithSchema),
     other_tables |-> SelectSeq(ListTables(b), LAMBDA t : ~StartsWithSchema(t))]

get_table_columns(b, t) == b[t].cols

\* ----------------------------------------------------------- fingerprint
None == [none |-> TRUE, data |-> {}]

\* the characters in use, in the order of their code points
CodePoints ==
    <<" ", "'", "-", ".", "3", ":",
      "A", "B", "C", "D", "E", "F", "G", "H", "I", "J", "K", "L", "M",
      "N", "O", "P", "Q", "R", "S", "T", "U", "V", "W", "X", "Y", "Z", "_",
      "a", "b", "c", "d", "e", "f", "g", "h", "i", "j", "k", "l", "m",
      "n", "o", "p", "q", "r", "s", "t", "u", "v", "w", "x", "y", "z">>

ord(c) == CHOOSE k \in 1..Len(CodePoints) : CodePoints[k] = c

\* s < t for strings
RECURSIVE StrLess(_, _)
StrLess(s, t) ==
    IF t = <<>> THEN FALSE
    ELSE IF s = <<>> THEN TRUE
    ELSE IF Head(s) = Head(t) THEN StrLess(Tail(s), Tail(t))
    ELSE ord(Head(s)) < ord(Head(t))

\* line 680: f"{table}:{row_count}:{str(columns)}"; the strings of two tables
\* differ before the second ":", so "<table>:" decides their order
TableInfo(b, table) == <<table, Len(b[table].rows), b[table].cols>>

InfoLess(x, y) == StrLess(Spell(x[1]) \o <<":">>, Spell(y[1]) \o <<":">>)

\* sorted(hash_data)
RECURSIVE Insert(_, _)
Insert(sorted, x) ==
    IF sorted = <<>> THEN <<x>>
    ELSE IF InfoLess(x, Head(sorted)) THEN <<x>> \o sorted
    ELSE <<Head(sorted)>> \o Insert(Tail(sorted), x)

RECURSIVE Sorted(_)
Sorted(hash_data) ==
    IF hash_data = <<>> THEN <<>> ELSE Insert(Sorted(Tail(hash_data)), Head(hash_data))

\* faulty variant of calculate_tables_hash: hash_data is joined as collected
calculate_tables_hash_Unsorted(b, tables, query_ok) ==
    IF ~query_ok \/ \E i \in 1..Len(tables) : ~b[tables[i]].acc
    THEN None
    ELSE [none |-> FALSE,
          data |-> [i \in 1..Len(tables) |-> TableInfo(b, tables[i])]]

\* md5 of the sorted, joined "<table>:<row_count>:<columns>" strings: the
\* joined string stands for its digest
calculate_tables_hash(b, tables, query_ok) ==
    IF ~query_ok \/ \E i \in 1..Len(tables) : ~b[tables[i]].acc
    THEN None
    ELSE [none |-> FALSE,
          data |-> Sorted([i \in 1..Len(tables) |-> TableInfo(b, tables[i])])]

\* --------------------------------------------------------------- ledger
SameKey(e, source_schema, target_table, transformation_type) ==
    /\ e.source_schema = source_schema
    /\ e.target_table = target_table
    /\ e.transformation_type = transformation_type

Found(ledger, source_schema, target_table, transformation_type) ==
    {e \in ledger : SameKey(e, source_schema, target_table, transformation_type)}

\* faulty variants of is_transformation_needed: the lookup keyed on the schema instead
\* of the target table; the status left out of the comparison; the fingerprint
\* left out of the comparison
is_transformation_needed_WrongKey(ledger, source_schema, target_table, transformation_type, source_hash, lookup_ok) ==
    IF ~lookup_ok THEN TRUE
    ELSE LET result == Found(ledger, source_schema, source_schema, transformation_type) IN
         IF result = {} THEN TRUE
         ELSE LET r == CHOOSE e \in result : TRUE IN
              ~(r.status = "success" /\ r.source_hash = source_hash)

is_transformation_needed_StaleSkipped(ledger, source_schema, target_table, transformation_type, source_hash, lookup_ok) ==
    IF ~lookup_ok THEN TRUE
    ELSE LET result == Found(ledger, source_schema, target_table, transformation_type) IN
         IF result = {} THEN TRUE
         ELSE LET r == CHOOSE e \in result : TRUE IN
              r.source_hash # source_hash

is_transformation_needed_NoHashCompare(ledger, source_schema, target_table, transformation_type, source_hash, lookup_ok) ==
    IF ~lookup_ok THEN TRUE
    ELSE LET result == Found(ledger, source_schema, target_table, transformation_type) IN
         IF result = {} THEN TRUE
         ELSE LET r == CHOOSE e \in result : TRUE IN
              r.status # "success"

is_transformation_needed(ledger, source_schema, target_table, transformation_type, source_hash, lookup_ok) ==
    IF ~lookup_ok THEN TRUE
    ELSE LET result == Found(ledger, source_schema, target_table, transformation_type) IN
         IF result = {} THEN TRUE
         ELSE LET r == CHOOSE e \in result : TRUE IN
              IF r.status = "success" /\ r.source_hash = source_hash THEN FALSE
              ELSE IF r.status = "success" /\ r.source_hash # source_hash THEN TRUE
              ELSE TRUE

\* faulty variant of update_transformation_status: a plain INSERT, no ON CONFLICT
update_transformation_status_Append(ledger, source_schema, source_tables, target_schema, target_table, transformation_type, source_hash, row_count, status, error_message) ==
    ledger \cup {[source_schema |-> source_schema, source_tables |-> source_tables,
                  target_schema |-> target_schema, target_table |-> target_table,
                  transformation_type |-> transformation_type, source_hash |-> source_hash,
                  row_count |-> row_count, status |-> status, error_message |-> error_message]}

update_transformation_status(ledger, source_schema, source_tables, target_schema, target_table, transformation_type, source_hash, row_count, status, error_message) ==
    LET excluded == [source_schema |-> source_schema, source_tables |-> source_tables,
                     target_schema |-> target_schema, target_table |-> target_table,
                     transformation_type |-> transformation_type, source_hash |-> source_hash,
                     row_count |-> row_count, status |-> status, error_message |-> error_message]
    IN IF Found(ledger, source_schema, target_table, transformation_type) = {}
       THEN ledger \cup {excluded}
       ELSE {IF SameKey(e, source_schema, target_table, transformation_type)
             THEN [e EXCEPT !.source_tables = excluded.source_tables,
                            !.target_schema = excluded.target_schema,
                            !.source_hash = excluded.source_hash,
                            !.row_count = excluded.row_count,
                            !.status = excluded.status,
                            !.error_message = excluded.error_message]
             ELSE e : e \in ledger}


\* ----------------------------------------------------------- reconciler
\* col_type.upper(), and the tests 'INT' in ... and 'BIGINT' in ...
Upper(ty) == upper(Spell(ty))

ContainsINT(u) == contains(u, <<"I", "N", "T">>)

ContainsBIGINT(u) == contains(u, <<"B", "I", "G", "I", "N", "T">>)

\* lines 262-275
MergeType(existing, col_type) ==
    IF Upper(col_type) = Spell("TEXT") \/ Upper(existing) = Spell("TEXT") THEN "TEXT"
    ELSE IF Upper(col_type) = Spell("JSONB") \/ Upper(existing) = Spell("JSONB") THEN "JSONB"
    ELSE IF ContainsINT(Upper(col_type)) /\ ContainsINT(Upper(existing))
         THEN IF ContainsBIGINT(Upper(col_type)) \/ ContainsBIGINT(Upper(existing))
              THEN "BIGINT" ELSE "INTEGER"
    ELSE existing

AddColumn(all_columns, c) ==
    IF c[1] = "id" THEN all_columns
    ELSE IF c[1] \in ColNames(all_columns)
         THEN [i \in 1..Len(all_columns) |->
                  IF all_columns[i][1] = c[1]
                  THEN <<c[1], MergeType(all_columns[i][2], c[2])>>
                  ELSE all_columns[i]]
         ELSE Append(all_columns, c)

RECURSIVE AddColumns(_, _)
AddColumns(all_columns, columns) ==
    IF columns = <<>> THEN all_columns
    ELSE AddColumns(AddColumn(all_columns, Head(columns)), Tail(columns))

RECURSIVE CollectInto(_, _, _)
CollectInto(all_columns, b, tables) ==
    IF tables = <<>> THEN all_columns
    ELSE CollectInto(AddColumns(all_columns, get_table_columns(b, Head(tables))), b, Tail(tables))

\* faulty variant of collect_all_columns_from_tables: the loop stops after the
\* first table
collect_all_columns_from_tables_FirstOnly(b, tables) ==
    IF tables = <<>> THEN <<>> ELSE CollectInto(<<>>, b, <<Head(tables)>>)

collect_all_columns_from_tables(b, tables) == CollectInto(<<>>, b, tables)

\* ------------------------------------------------------- process state
LocInit == [source_hash |-> None, prefix_tables |-> <<>>, existing_tables |-> <<>>,
            all_columns |-> <<>>, i |-> 0, offset |-> 0, inserted_count |-> 0,
            copied |-> {},
            files |-> <<>>, blob_name |-> <<>>, file_hash |-> None, array_data |-> <<>>,
            attempts |-> <<>>]

\* what the ledger held for the key when the step began: the status ("none"
\* without an entry) and whether the stored fingerprint is the computed one
PrevStatus(ledger, target_table, transformation_type) ==
    LET result == Found(ledger, Schema, target_table, transformation_type)
    IN IF result = {} THEN "none" ELSE (CHOOSE e \in result : TRUE).status

SameHash(ledger, target_table, transformation_type, source_hash) ==
    \E e \in Found(ledger, Schema, target_table, transformation_type) :
        e.source_hash = source_hash

Ev(op, target, hash, prev_status, same_hash, lookup_ok, result) ==
    [op |-> op, target |-> target, hash |-> hash, prev_status |-> prev_status,
     same_hash |-> same_hash, lookup_ok |-> lookup_ok, result |-> result]

EvStep(op, target, result) == Ev(op, target, None, "none", FALSE, TRUE, result)

\* a step of an invocation that computed the fingerprint hash
EvOf(op, target, hash, result) == Ev(op, target, hash, "none", FALSE, TRUE, result)

\* process_schema: the copies follow the fusion; main returns after them
AfterFusion(b) == IF get_all_tables(b).other_tables # <<>> THEN "copy_gate" ELSE "exit"

\* ------------------------------------------------------------- orchestrator
StartRun ==
    /\ pc = "idle"
    /\ ListTables(bronze) # <<>>
    /\ pc' = IF get_all_tables(bronze).schema_prefix_tables # <<>>
             THEN "fuse_gate" ELSE AfterFusion(bronze)
    /\ loc' = LocInit
    /\ ev' = EvStep("start", Schema, "run")
    /\ UNCHANGED <<bronze, silver, tledger>>
    /\ UNCHANGED ingest_vars

\* ------------------------------------------------------ create_fusion_table
\* faulty variant of FusionRow: no NULL projected for the columns the table lacks
FusionRow_NoNull(table, row, all_columns, table_columns) ==
    [source_table |-> table, original_id |-> row.id,
     vals |-> [c \in ColNames(all_columns) |-> row.v]]

\* lines 388-395 and 410: SELECT '<table>', id, <column or NULL>, ...
FusionRow(table, row, all_columns, table_columns) ==
    [source_table |-> table, original_id |-> row.id,
     vals |-> [c \in ColNames(all_columns) |->
                 IF c \in table_columns THEN Cell(row, c) ELSE NULL]]

FusionCols(all_columns) ==
    <<<<"id", "SERIAL">>, <<"source_table", "TEXT">>, <<"original_id", "INTEGER">>>> \o all_columns

\* lines 294-318: list, fingerprint, gate, mark in_progress
FuseGate(F) ==
    /\ pc = "fuse_gate"
    /\ \E hash_ok \in F, lookup_ok \in F :
        LET prefix_tables == SelectSeq(ListTables(bronze), StartsWithSchema)
            source_hash == calculate_tables_hash(bronze, prefix_tables, hash_ok)
            needed == is_transformation_needed(tledger, Schema, FusionTarget, "fusion",
                                               source_hash, lookup_ok)
            prev == PrevStatus(tledger, FusionTarget, "fusion")
            same == SameHash(tledger, FusionTarget, "fusion", source_hash)
        IN IF prefix_tables = <<>>
           THEN /\ pc' = AfterFusion(bronze)
                /\ loc' = LocInit
                /\ ev' = EvStep("fuse_gate", FusionTarget, "no_tables")
                /\ UNCHANGED tledger
           ELSE IF source_hash # None /\ ~needed
           THEN /\ pc' = AfterFusion(bronze)
                /\ loc' = LocInit
                /\ ev' = Ev("fuse_gate", FusionTarget, source_hash, prev, same, lookup_ok, "skip")
                /\ UNCHANGED tledger
           ELSE /\ tledger' = IF source_hash # None
                              THEN update_transformation_status(tledger, Schema, prefix_tables,
                                       Schema, FusionTarget, "fusion", source_hash, 0,
                                       "in_progress", NULL)
                              ELSE tledger
                /\ pc' = "fuse_prepare"
                /\ loc' = [LocInit EXCEPT !.source_hash = source_hash,
                                          !.prefix_tables = prefix_tables]
                /\ ev' = Ev("fuse_gate", FusionTarget, source_hash, prev, same, lookup_ok, "run")
    /\ UNCHANGED <<bronze, silver>>
    /\ UNCHANGED ingest_vars

\* lines 322-355: accessible tables, reconciled columns, DROP TABLE
FusePrepare ==
    /\ pc = "fuse_prepare"
    /\ LET existing_tables == SelectSeq(loc.prefix_tables, LAMBDA t : bronze[t].acc)
           all_columns == collect_all_columns_from_tables(bronze, existing_tables)
       IN IF existing_tables = <<>> \/ all_columns = <<>>
          THEN /\ pc' = AfterFusion(bronze)
               /\ loc' = LocInit
               /\ ev' = EvOf("fuse_prepare", FusionTarget, loc.source_hash, "return")
               /\ UNCHANGED silver
          ELSE /\ silver' = [silver EXCEPT ![FusionTarget] = Absent]
               /\ pc' = "fuse_create"
               /\ loc' = [loc EXCEPT !.existing_tables = existing_tables,
                                     !.all_columns = all_columns]
               /\ ev' = EvStep("fuse_prepare", FusionTarget, "dropped")
    /\ UNCHANGED <<bronze, tledger>>
    /\ UNCHANGED ingest_vars

\* lines 357-363, and 454-457 when CREATE TABLE raises
FuseCreate(F) ==
    /\ pc = "fuse_create"
    /\ \E create_ok \in F :
        IF create_ok
        THEN /\ silver' = [silver EXCEPT ![FusionTarget] =
                              [exists |-> TRUE, acc |-> TRUE,
                               cols |-> FusionCols(loc.all_columns), rows |-> <<>>]]
             /\ pc' = "fuse_insert"
             /\ loc' = [loc EXCEPT !.i = 1]
             /\ ev' = EvStep("fuse_create", FusionTarget, "created")
             /\ UNCHANGED tledger
        ELSE /\ tledger' = IF loc.source_hash # None
                           THEN update_transformation_status(tledger, Schema, loc.prefix_tables,
                                    Schema, FusionTarget, "fusion", loc.source_hash, 0,
                                    "error", "create failed")
                           ELSE tledger
             /\ pc' = AfterFusion(bronze)
             /\ loc' = LocInit
             /\ ev' = EvOf("fuse_create", FusionTarget, loc.source_hash, "error")
             /\ UNCHANGED silver
    /\ UNCHANGED bronze
    /\ UNCHANGED ingest_vars

\* faulty variant of FuseInsert: after a failed bulk copy the rows of the
\* table are inserted one by one
FuseInsert_Salvage(F) ==
    /\ pc = "fuse_insert"
    /\ loc.i <= Len(loc.existing_tables)
    /\ \E bulk_ok \in F :
        LET table == loc.existing_tables[loc.i]
            columns == get_table_columns(bronze, table)
            table_columns == ColNames(SelectSeq(columns, IsNotId))
            copied == [k \in 1..Len(bronze[table].rows) |->
                          FusionRow(table, bronze[table].rows[k], loc.all_columns, table_columns)]
        IN IF table_columns = {}
           THEN /\ ev' = EvStep("fuse_insert", table, "no_columns")
                /\ loc' = [loc EXCEPT !.i = @ + 1]
                /\ UNCHANGED silver
           ELSE /\ silver' = [silver EXCEPT ![FusionTarget].rows = @ \o copied]
                /\ loc' = [loc EXCEPT !.i = @ + 1,
                                      !.copied = IF bulk_ok THEN @ \cup {table} ELSE @]
                /\ ev' = EvStep("fuse_insert", table, IF bulk_ok THEN "copied" ELSE "bulk_failed")
    /\ UNCHANGED <<bronze, tledger, pc>>
    /\ UNCHANGED ingest_vars

\* lines 366-431: one contributing table per step (loc.copied remembers the
\* tables whose bulk copy went through)
FuseInsert(F) ==
    /\ pc = "fuse_insert"
    /\ loc.i <= Len(loc.existing_tables)
    /\ \E bulk_ok \in F :
        LET table == loc.existing_tables[loc.i]
            columns == get_table_columns(bronze, table)
            table_columns == ColNames(SelectSeq(columns, IsNotId))
            copied == [k \in 1..Len(bronze[table].rows) |->
                          FusionRow(table, bronze[table].rows[k], loc.all_columns, table_columns)]
        IN IF table_columns = {}
           THEN /\ ev' = EvStep("fuse_insert", table, "no_columns")
                /\ loc' = [loc EXCEPT !.i = @ + 1]
                /\ UNCHANGED silver
           ELSE IF bulk_ok
           THEN /\ silver' = [silver EXCEPT ![FusionTarget].rows = @ \o copied]
                /\ loc' = [loc EXCEPT !.i = @ + 1, !.copied = @ \cup {table}]
                /\ ev' = EvStep("fuse_insert", table, "copied")
           ELSE /\ ev' = EvStep("fuse_insert", table, "bulk_failed")
                /\ loc' = [loc EXCEPT !.i = @ + 1]
                /\ UNCHANGED silver
    /\ UNCHANGED <<bronze, tledger, pc>>
    /\ UNCHANGED ingest_vars

\* faulty variant of FuseFinish: success is recorded whether or not a
\* fingerprint was computed
FuseFinish_Unconditional ==
    /\ pc = "fuse_insert"
    /\ loc.i > Len(loc.existing_tables)
    /\ LET total_rows == Len(silver[FusionTarget].rows)
       IN tledger' = update_transformation_status(tledger, Schema, loc.prefix_tables,
                         Schema, FusionTarget, "fusion", loc.source_hash, total_rows,
                         "success", NULL)
    /\ pc' = AfterFusion(bronze)
    /\ loc' = LocInit
    /\ ev' = EvOf("fuse_finish", FusionTarget, loc.source_hash, "success")
    /\ UNCHANGED <<bronze, silver>>
    /\ UNCHANGED ingest_vars

\* lines 433-452: grant, index, count, mark success
FuseFinish ==
    /\ pc = "fuse_insert"
    /\ loc.i > Len(loc.existing_tables)
    /\ LET total_rows == Len(silver[FusionTarget].rows)
       IN tledger' = IF loc.source_hash # None
                     THEN update_transformation_status(tledger, Schema, loc.prefix_tables,
                              Schema, FusionTarget, "fusion", loc.source_hash, total_rows,
                              "success", NULL)
                     ELSE tledger
    /\ pc' = AfterFusion(bronze)
    /\ loc' = LocInit
    /\ ev' = EvOf("fuse_finish", FusionTarget, loc.source_hash, "success")
    /\ UNCHANGED <<bronze, silver>>
    /\ UNCHANGED ingest_vars


\* --------------------------------------------------------------- copy_table
BatchSize == 100

Min(a, b) == IF a < b THEN a ELSE b

\* SELECT ... LIMIT batch_size OFFSET offset
FetchBatch(rows, offset) == SubSeq(rows, offset + 1, Min(offset + BatchSize, Len(rows)))

\* lines 464-483: accessibility test, fingerprint, gate, mark in_progress
CopyGate(F) ==
    /\ pc = "copy_gate"
    /\ \E hash_ok \in F, lookup_ok \in F :
        LET table == CopyTable
            source_hash == calculate_tables_hash(bronze, <<table>>, hash_ok)
            needed == is_transformation_needed(tledger, Schema, table, "copy",
                                               source_hash, lookup_ok)
            prev == PrevStatus(tledger, table, "copy")
            same == SameHash(tledger, table, "copy", source_hash)
        IN IF ~bronze[table].acc
           THEN /\ pc' = "exit"
                /\ loc' = LocInit
                /\ ev' = EvStep("copy_gate", table, "inaccessible")
                /\ UNCHANGED tledger
           ELSE IF source_hash # None /\ ~needed
           THEN /\ pc' = "exit"
                /\ loc' = LocInit
                /\ ev' = Ev("copy_gate", table, source_hash, prev, same, lookup_ok, "skip")
                /\ UNCHANGED tledger
           ELSE /\ tledger' = IF source_hash # None
                              THEN update_transformation_status(tledger, Schema, <<table>>,
                                       Schema, table, "copy", source_hash, 0,
                                       "in_progress", NULL)
                              ELSE tledger
                /\ pc' = "copy_prepare"
                /\ loc' = [LocInit EXCEPT !.source_hash = source_hash]
                /\ ev' = Ev("copy_gate", table, source_hash, prev, same, lookup_ok, "run")
    /\ UNCHANGED <<bronze, silver>>
    /\ UNCHANGED ingest_vars

\* lines 485-498: columns of the source, DROP TABLE
CopyPrepare ==
    /\ pc = "copy_prepare"
    /\ LET columns == get_table_columns(bronze, CopyTable)
       IN IF columns = <<>>
          THEN /\ pc' = "exit"
               /\ loc' = LocInit
               /\ ev' = EvOf("copy_prepare", CopyTable, loc.source_hash, "return")
               /\ UNCHANGED silver
          ELSE /\ silver' = [silver EXCEPT ![CopyTable] = Absent]
               /\ pc' = "copy_create"
               /\ loc' = [loc EXCEPT !.all_columns = columns]
               /\ ev' = EvStep("copy_prepare", CopyTable, "dropped")
    /\ UNCHANGED <<bronze, tledger>>
    /\ UNCHANGED ingest_vars

\* lines 500-507, and 587-590 when CREATE TABLE raises
CopyCreate(F) ==
    /\ pc = "copy_create"
    /\ \E create_ok \in F :
        IF create_ok
        THEN /\ silver' = [silver EXCEPT ![CopyTable] =
                              [exists |-> TRUE, acc |-> TRUE,
                               cols |-> loc.all_columns, rows |-> <<>>]]
             /\ pc' = "copy_bulk"
             /\ loc' = loc
             /\ ev' = EvStep("copy_create", CopyTable, "created")
             /\ UNCHANGED tledger
        ELSE /\ tledger' = IF loc.source_hash # None
                           THEN update_transformation_status(tledger, Schema, <<CopyTable>>,
                                    Schema, CopyTable, "copy", loc.source_hash, 0,
                                    "error", "create failed")
                           ELSE tledger
             /\ pc' = "exit"
             /\ loc' = LocInit
             /\ ev' = EvOf("copy_create", CopyTable, loc.source_hash, "error")
             /\ UNCHANGED silver
    /\ UNCHANGED bronze
    /\ UNCHANGED ingest_vars

\* lines 509-548: the dblink bulk copy, or the start of the row-by-row copy
CopyBulk(F) ==
    /\ pc = "copy_bulk"
    /\ \E bulk_ok \in F :
        IF bulk_ok
        THEN /\ silver' = [silver EXCEPT ![CopyTable].rows = @ \o bronze[CopyTable].rows]
             /\ pc' = "copy_finish"
             /\ loc' = loc
             /\ ev' = EvStep("copy_bulk", CopyTable, "copied")
        ELSE /\ pc' = "copy_rows"
             /\ loc' = [loc EXCEPT !.offset = 0, !.inserted_count = 0, !.i = 1]
             /\ ev' = EvStep("copy_bulk", CopyTable, "bulk_failed")
             /\ UNCHANGED silver
    /\ UNCHANGED <<bronze, tledger>>
    /\ UNCHANGED ingest_vars

\* lines 550-570: one row of the current batch per step
CopyRow(F) ==
    /\ pc = "copy_rows"
    /\ LET rows == FetchBatch(bronze[CopyTable].rows, loc.offset)
       IN /\ rows # <<>>
          /\ \E insert_ok \in F :
              /\ IF insert_ok
                 THEN /\ silver' = [silver EXCEPT ![CopyTable].rows = Append(@, rows[loc.i])]
                      /\ ev' = EvStep("copy_row", CopyTable, "inserted")
                 ELSE /\ ev' = EvStep("copy_row", CopyTable, "row_failed")
                      /\ UNCHANGED silver
              /\ loc' = IF loc.i < Len(rows)
                        THEN [loc EXCEPT !.i = @ + 1,
                                         !.inserted_count = IF insert_ok THEN @ + 1 ELSE @]
                        ELSE [loc EXCEPT !.i = 1, !.offset = @ + BatchSize,
                                         !.inserted_count = IF insert_ok THEN @ + 1 ELSE @]
    /\ UNCHANGED <<bronze, tledger, pc>>
    /\ UNCHANGED ingest_vars

\* lines 555-556 (the empty batch ends the loop) and 574-585: grant, count, mark success
CopyFinish ==
    /\ \/ pc = "copy_finish"
       \/ pc = "copy_rows" /\ FetchBatch(bronze[CopyTable].rows, loc.offset) = <<>>
    /\ LET copied_rows == Len(silver[CopyTable].rows)
       IN tledger' = IF loc.source_hash # None
                     THEN update_transformation_status(tledger, Schema, <<CopyTable>>,
                              Schema, CopyTable, "copy", loc.source_hash, copied_rows,
                              "success", NULL)
                     ELSE tledger
    /\ pc' = "exit"
    /\ loc' = LocInit
    /\ ev' = EvOf("copy_finish", CopyTable, loc.source_hash, "success")
    /\ UNCHANGED <<bronze, silver>>
    /\ UNCHANGED ingest_vars

\* main, lines 794-799: the connections are closed and the process ends
TransformExit ==
    /\ pc = "exit"
    /\ pc' = "idle"
    /\ loc' = LocInit
    /\ ev' = EvStep("transform_exit", Schema, "exit_0")
    /\ UNCHANGED <<bronze, silver, tledger>>
    /\ UNCHANGED ingest_vars

\* =============================================================== import_json
\* blob names, as their "/"-separated parts
BlobPhb == <<"data", "spells", "spells-phb.json">>
BlobOther == <<"data", "spells", "other.json">>
Blobs == {BlobPhb, BlobOther}

\* an item of a document: the value g its fields hold and the keys that
\* flatten_json yields for it
Item(g, keys) == [v |-> g, keys |-> keys]

Unparseable == [parse_ok |-> FALSE, items |-> <<>>]

Document(items) == [parse_ok |-> TRUE, items |-> items]

Items(n, g, keys) == [k \in 1..n |-> Item(g, keys)]

\* the documents a blob can hold
DocVersions(blob_name) ==
    IF blob_name = BlobPhb THEN
        {Unparseable, Document(Items(1, "v0", {}))}
        \cup {Document(Items(n, "v0", {"name"})) : n \in 1..MaxRows}
    ELSE {Document(Items(1, "v0", {"name"}))}

\* the containers explored, and those that hold well-formed documents only
Containers ==
    {d \in [Blobs -> UNION {DocVersions(blob_name) : blob_name \in Blobs}] :
        \A blob_name \in Blobs : d[blob_name] \in DocVersions(blob_name)}

FlatContainers ==
    {d \in Containers : \A blob_name \in Blobs :
        /\ d[blob_name].parse_ok
        /\ \A k \in 1..Len(d[blob_name].items) : d[blob_name].items[k].keys # {}}

\* parts[-1].replace('.json', '')
WithoutJson(file) == replace(file, <<".", "j", "s", "o", "n">>)

\* lines 243-245
TargetOf(blob_name) ==
    LET parts == blob_name
    IN [schema |-> IF Len(parts) > 2
                   THEN Unspell(sanitize_name(Spell(parts[Len(parts) - 1])))
                   ELSE "main",
        table |-> Unspell(sanitize_name(WithoutJson(Spell(parts[Len(parts)]))))]

\* md5 of the bytes: the document stands for its digest
calculate_file_hash(content) == [none |-> FALSE, data |-> content]

flatten_json(item) == [c \in item.keys |-> item.v]

\* the orders in which a Python set can be iterated
Orders(S) == {o \in [1..Cardinality(S) -> S] :
                 \A i, j \in 1..Cardinality(S) : i # j => o[i] # o[j]}

\* lines 301-304 (the names in use are shorter than 58 characters)
ColName(col) ==
    LET col_name == sanitize_name(Spell(col))
    IN IF lower(col_name) = <<"i", "d">> THEN "json_id" ELSE Unspell(col_name)

DefaultCols == {"created_at", "updated_at"}

\* lines 298-323, with the data types information_schema reports
FlatCols(order) ==
    <<IdCol>> \o [k \in 1..Len(order) |-> <<ColName(order[k]), "text">>]
    \o <<<<"json_data", "jsonb">>, <<"created_at", "timestamp without time zone">>,
         <<"updated_at", "timestamp without time zone">>>>

\* lines 377-385
RawCols ==
    <<IdCol, <<"json_data", "jsonb">>, <<"created_at", "timestamp without time zone">>,
      <<"updated_at", "timestamp without time zone">>>>

\* lines 332-347: the item's own flattened columns and the whole item as JSON
StructuredRow(id, item) ==
    [id |-> id, v |-> item.v,
     keys |-> DOMAIN flatten_json(item) \cup {"json_data"} \cup DefaultCols]

\* lines 356-359 and 391-394: json_data only
JsonOnlyRow(id, item) ==
    [id |-> id, v |-> item.v, keys |-> {"json_data"} \cup DefaultCols]

\* ------------------------------------------------------------ import ledger
Put(memory, file_path, entry) ==
    [q \in DOMAIN memory \cup {file_path} |-> IF q = file_path THEN entry ELSE memory[q]]

\* faulty variant of is_file_already_imported: the in-process cache only
is_file_already_imported_CacheOnly(memory, ledger, file_path, file_hash, lookup_ok) ==
    IF file_path \in DOMAIN memory
    THEN [imported |-> memory[file_path].status = "success"
                       /\ memory[file_path].file_hash = file_hash,
          memory |-> memory]
    ELSE [imported |-> FALSE, memory |-> memory]

\* the answer, and memory_tracking after the call
is_file_already_imported(memory, ledger, file_path, file_hash, lookup_ok) ==
    IF file_path \in DOMAIN memory
    THEN [imported |-> memory[file_path].status = "success"
                       /\ memory[file_path].file_hash = file_hash,
          memory |-> memory]
    ELSE IF ~lookup_ok THEN [imported |-> FALSE, memory |-> memory]
    ELSE LET result == {e \in ledger : e.file_path = file_path /\ e.file_hash = file_hash}
         IN IF result # {}
            THEN LET r == CHOOSE e \in result : TRUE
                 IN [imported |-> r.status = "success",
                     memory |-> Put(memory, file_path,
                                    [status |-> r.status, file_hash |-> file_hash])]
            ELSE [imported |-> FALSE, memory |-> memory]

\* faulty variant of update_import_status: a plain INSERT, no ON CONFLICT
update_import_status_Append(memory, ledger, file_path, file_hash, schema, table, row_count, status, error_message) ==
    [memory |-> Put(memory, file_path,
                    [file_hash |-> file_hash, schema |-> schema, table |-> table,
                     row_count |-> row_count, status |-> status,
                     error_message |-> error_message]),
     ledger |-> ledger \cup {[file_path |-> file_path, file_hash |-> file_hash,
                              schema_name |-> schema, table_name |-> table,
                              row_count |-> row_count, status |-> status,
                              error_message |-> error_message]}]

\* memory_tracking and the ledger after the call
update_import_status(memory, ledger, file_path, file_hash, schema, table, row_count, status, error_message) ==
    LET excluded == [file_path |-> file_path, file_hash |-> file_hash,
                     schema_name |-> schema, table_name |-> table,
                     row_count |-> row_count, status |-> status,
                     error_message |-> error_message]
    IN [memory |-> Put(memory, file_path,
                       [file_hash |-> file_hash, schema |-> schema, table |-> table,
                        row_count |-> row_count, status |-> status,
                        error_message |-> error_message]),
        ledger |-> IF \A e \in ledger : e.file_path # file_path
                   THEN ledger \cup {excluded}
                   ELSE {IF e.file_path = file_path THEN excluded ELSE e : e \in ledger}]

ImportStatus(ledger, file_path) ==
    IF \A e \in ledger : e.file_path # file_path THEN "none"
    ELSE (CHOOSE e \in ledger : e.file_path = file_path).status

ImportSameHash(ledger, file_path, file_hash) ==
    \E e \in ledger : e.file_path = file_path /\ e.file_hash = file_hash

\* --------------------------------------------------------------------- main
\* lines 528-538 and 555-565: the blobs listed, then process_blob for each
IngestMain(L) ==
    /\ pc = "idle"
    /\ \E files \in L :
        loc' = [LocInit EXCEPT !.files = files]
    /\ pc' = "ingest_next"
    /\ ev' = EvStep("ingest_main", Schema, "run")
    /\ UNCHANGED <<docs, bronze, silver, iledger, tledger, memory_tracking, failed_imports>>

\* faulty variant of SummaryExit: the failed imports are only logged
SummaryExit_OnlyLogged(failed) == "exit_0"

\* lines 572-579: sys.exit(1) when an import failed, sys.exit(0) otherwise
SummaryExit(failed) == IF failed # {} THEN "exit_1" ELSE "exit_0"

\* lines 571-579: the summary and the exit
IngestExit ==
    /\ pc = "ingest_next"
    /\ loc.files = <<>>
    /\ pc' = "idle"
    /\ loc' = LocInit
    /\ memory_tracking' = <<>>
    /\ failed_imports' = {}
    /\ ev' = EvStep("ingest_exit", Schema, SummaryExit(failed_imports))
    /\ UNCHANGED <<docs, bronze, silver, iledger, tledger>>

\* ------------------------------------------------------------- process_blob
\* lines 236-241: the digest and the already-imported check
IngestGate(F) ==
    /\ pc = "ingest_next"
    /\ loc.files # <<>>
    /\ \E lookup_ok \in F :
        LET blob_name == Head(loc.files)
            file_hash == calculate_file_hash(docs[blob_name])
            answer == is_file_already_imported(memory_tracking, iledger, blob_name,
                                               file_hash, lookup_ok)
            prev == ImportStatus(iledger, blob_name)
            same == ImportSameHash(iledger, blob_name, file_hash)
        IN /\ memory_tracking' = answer.memory
           /\ IF answer.imported
              THEN /\ pc' = "ingest_next"
                   /\ loc' = [LocInit EXCEPT !.files = Tail(loc.files)]
                   /\ ev' = Ev("ingest_gate", blob_name, file_hash, prev, same, lookup_ok, "skip")
              ELSE /\ pc' = "parse"
                   /\ loc' = [LocInit EXCEPT !.files = Tail(loc.files),
                                             !.blob_name = blob_name,
                                             !.file_hash = file_hash]
                   /\ ev' = Ev("ingest_gate", blob_name, file_hash, prev, same, lookup_ok, "run")
    /\ UNCHANGED <<docs, bronze, silver, iledger, tledger, failed_imports>>

\* lines 248-294, and 409-415 when json.loads raises
IngestParse ==
    /\ pc = "parse"
    /\ LET content == docs[loc.blob_name]
           target == TargetOf(loc.blob_name)
           array_data == content.items
           all_columns == UNION {DOMAIN flatten_json(array_data[k]) : k \in 1..Len(array_data)}
           failed == update_import_status(memory_tracking, iledger, loc.blob_name,
                         loc.file_hash, target.schema, target.table, 0, "error",
                         "json.loads failed")
       IN IF ~content.parse_ok
          THEN /\ memory_tracking' = failed.memory
               /\ iledger' = failed.ledger
               /\ failed_imports' = failed_imports \cup {loc.blob_name}
               /\ pc' = "ingest_next"
               /\ loc' = [LocInit EXCEPT !.files = loc.files]
               /\ ev' = EvOf("ingest_parse", loc.blob_name, loc.file_hash, "error")
          ELSE /\ pc' = IF all_columns = {} THEN "raw_drop" ELSE "drop"
               /\ loc' = [loc EXCEPT !.array_data = array_data]
               /\ ev' = EvStep("ingest_parse", loc.blob_name, "parsed")
               /\ UNCHANGED <<iledger, memory_tracking, failed_imports>>
    /\ UNCHANGED <<docs, bronze, silver, tledger>>

\* line 311: DROP TABLE IF EXISTS
IngestDrop ==
    /\ pc = "drop"
    /\ bronze' = [bronze EXCEPT ![TargetOf(loc.blob_name).table] = Absent]
    /\ pc' = "create"
    /\ loc' = loc
    /\ ev' = EvStep("ingest_drop", loc.blob_name, "dropped")
    /\ UNCHANGED <<docs, silver, iledger, tledger, memory_tracking, failed_imports>>

\* lines 298-323; when CREATE TABLE raises, the raw JSON path takes over (368)
IngestCreate(F) ==
    /\ pc = "create"
    /\ \E create_ok \in F :
        LET array_data == loc.array_data
            all_columns == UNION {DOMAIN flatten_json(array_data[k]) : k \in 1..Len(array_data)}
        IN IF create_ok
           THEN /\ \E order \in Orders(all_columns) :
                     bronze' = [bronze EXCEPT ![TargetOf(loc.blob_name).table] =
                                   [exists |-> TRUE, acc |-> TRUE,
                                    cols |-> FlatCols(order), rows |-> <<>>]]
                /\ pc' = "rows"
                /\ loc' = [loc EXCEPT !.i = 1, !.inserted_count = 0]
                /\ ev' = EvStep("ingest_create", loc.blob_name, "created")
           ELSE /\ pc' = "raw_drop"
                /\ loc' = loc
                /\ ev' = EvStep("ingest_create", loc.blob_name, "create_failed")
                /\ UNCHANGED bronze
    /\ UNCHANGED <<docs, silver, iledger, tledger, memory_tracking, failed_imports>>

\* lines 329-353: the structured insert of one item (loc.attempts remembers
\* the statements issued for each item)
IngestRow(F) ==
    /\ pc = "rows"
    /\ loc.i <= Len(loc.array_data)
    /\ \E insert_ok \in F :
        LET table == TargetOf(loc.blob_name).table
            item == loc.array_data[loc.i]
        IN IF insert_ok
           THEN /\ bronze' = [bronze EXCEPT ![table].rows =
                                 Append(@, StructuredRow(Len(@) + 1, item))]
                /\ pc' = "rows"
                /\ loc' = [loc EXCEPT !.i = @ + 1, !.inserted_count = @ + 1,
                                      !.attempts = Append(@, <<"structured">>)]
                /\ ev' = EvStep("ingest_row", loc.blob_name, "inserted")
           ELSE /\ pc' = "fallback"
                /\ loc' = [loc EXCEPT !.attempts = Append(@, <<"structured_failed">>)]
                /\ ev' = EvStep("ingest_row", loc.blob_name, "row_failed")
                /\ UNCHANGED bronze
    /\ UNCHANGED <<docs, silver, iledger, tledger, memory_tracking, failed_imports>>

\* faulty variant of CountFallback: the row saved by the fallback is not counted
CountFallback_NotCounted(inserted_count, fallback_ok) == inserted_count

\* line 360
CountFallback(inserted_count, fallback_ok) ==
    IF fallback_ok THEN inserted_count + 1 ELSE inserted_count

\* lines 354-363: the same item once more, json_data only
IngestFallback(F) ==
    /\ pc = "fallback"
    /\ \E fallback_ok \in F :
        LET table == TargetOf(loc.blob_name).table
            item == loc.array_data[loc.i]
        IN /\ IF fallback_ok
              THEN /\ bronze' = [bronze EXCEPT ![table].rows =
                                    Append(@, JsonOnlyRow(Len(@) + 1, item))]
                   /\ ev' = EvStep("ingest_fallback", loc.blob_name, "inserted")
              ELSE /\ ev' = EvStep("ingest_fallback", loc.blob_name, "row_lost")
                   /\ UNCHANGED bronze
           /\ loc' = [loc EXCEPT !.i = @ + 1,
                                 !.inserted_count = CountFallback(@, fallback_ok),
                                 !.attempts[loc.i] = Append(@, IF fallback_ok THEN "json_only"
                                                               ELSE "json_only_failed")]
    /\ pc' = "rows"
    /\ UNCHANGED <<docs, silver, iledger, tledger, memory_tracking, failed_imports>>

\* lines 365-366 and 406-408: mark success, grant, return
IngestRecord ==
    /\ pc = "rows"
    /\ loc.i > Len(loc.array_data)
    /\ LET target == TargetOf(loc.blob_name)
           done == update_import_status(memory_tracking, iledger, loc.blob_name,
                       loc.file_hash, target.schema, target.table, loc.inserted_count,
                       "success", NULL)
       IN /\ memory_tracking' = done.memory
          /\ iledger' = done.ledger
    /\ pc' = "ingest_next"
    /\ loc' = [LocInit EXCEPT !.files = loc.files, !.blob_name = loc.blob_name,
                              !.array_data = loc.array_data, !.attempts = loc.attempts]
    /\ ev' = EvOf("ingest_record", loc.blob_name, loc.file_hash, "success")
    /\ UNCHANGED <<docs, bronze, silver, tledger, failed_imports>>

\* line 374: the raw JSON path drops what the flattened path left
RawDrop ==
    /\ pc = "raw_drop"
    /\ bronze' = [bronze EXCEPT ![TargetOf(loc.blob_name).table] = Absent]
    /\ pc' = "raw_create"
    /\ loc' = loc
    /\ ev' = EvStep("raw_drop", loc.blob_name, "dropped")
    /\ UNCHANGED <<docs, silver, iledger, tledger, memory_tracking, failed_imports>>

\* lines 377-388
RawCreate ==
    /\ pc = "raw_create"
    /\ bronze' = [bronze EXCEPT ![TargetOf(loc.blob_name).table] =
                     [exists |-> TRUE, acc |-> TRUE, cols |-> RawCols, rows |-> <<>>]]
    /\ pc' = "raw_rows"
    /\ loc' = [loc EXCEPT !.i = 1, !.inserted_count = 0, !.attempts = <<>>]
    /\ ev' = EvStep("raw_create", loc.blob_name, "created")
    /\ UNCHANGED <<docs, silver, iledger, tledger, memory_tracking, failed_imports>>

\* lines 389-400: one item per step, no retry
RawRow(F) ==
    /\ pc = "raw_rows"
    /\ loc.i <= Len(loc.array_data)
    /\ \E insert_ok \in F :
        LET table == TargetOf(loc.blob_name).table
            item == loc.array_data[loc.i]
        IN IF insert_ok
           THEN /\ bronze' = [bronze EXCEPT ![table].rows =
                                 Append(@, JsonOnlyRow(Len(@) + 1, item))]
                /\ loc' = [loc EXCEPT !.i = @ + 1, !.inserted_count = @ + 1,
                                      !.attempts = Append(@, <<"json_only">>)]
                /\ ev' = EvStep("raw_row", loc.blob_name, "inserted")
           ELSE /\ loc' = [loc EXCEPT !.i = @ + 1,
                                      !.attempts = Append(@, <<"json_only_failed">>)]
                /\ ev' = EvStep("raw_row", loc.blob_name, "row_lost")
                /\ UNCHANGED bronze
    /\ pc' = "raw_rows"
    /\ UNCHANGED <<docs, silver, iledger, tledger, memory_tracking, failed_imports>>

\* lines 402-408: mark success, grant, return
RawRecord ==
    /\ pc = "raw_rows"
    /\ loc.i > Len(loc.array_data)
    /\ LET target == TargetOf(loc.blob_name)
           done == update_import_status(memory_tracking, iledger, loc.blob_name,
                       loc.file_hash, target.schema, target.table, loc.inserted_count,
                       "success", NULL)
       IN /\ memory_tracking' = done.memory
          /\ iledger' = done.ledger
    /\ pc' = "ingest_next"
    /\ loc' = [LocInit EXCEPT !.files = loc.files, !.blob_name = loc.blob_name,
                              !.array_data = loc.array_data, !.attempts = loc.attempts]
    /\ ev' = EvOf("raw_record", loc.blob_name, loc.file_hash, "success")
    /\ UNCHANGED <<docs, bronze, silver, tledger, failed_imports>>

\* between two runs a blob is uploaded again with other bytes
DocChange(D) ==
    /\ pc = "idle"
    /\ \E d \in D \ {docs} :
        /\ docs' = d
        /\ ev' = EvStep("doc_change", Schema, "changed")
    /\ UNCHANGED <<bronze, silver, iledger, tledger, memory_tracking, failed_imports, pc, loc>>

\* ------------------------------------------------------------- environment
\* the process dies (no cancellation support: nothing is rolled back)
Crash ==
    /\ pc # "idle"
    /\ pc' = "idle"
    /\ loc' = LocInit
    /\ memory_tracking' = <<>>
    /\ failed_imports' = {}
    /\ ev' = EvStep("crash", Schema, pc)
    /\ UNCHANGED <<docs, bronze, silver, iledger, tledger>>

\* between two runs a bronze table is re-ingested, dropped, or its grants change
BronzeChange ==
    /\ pc = "idle"
    /\ \E t \in Tables : \E v \in BronzeVersions(t) \ {bronze[t]} :
        /\ [bronze EXCEPT ![t] = v] \in BronzeStates
        /\ Family([bronze EXCEPT ![t] = v]) = Family(bronze)
        /\ bronze' = [bronze EXCEPT ![t] = v]
        /\ ev' = EvStep("bronze_change", t, "changed")
    /\ UNCHANGED <<silver, tledger, pc, loc>>
    /\ UNCHANGED ingest_vars

\* ------------------------------------------------------------ specification
\* the stores before the first run
Fresh ==
    /\ silver = [t \in Targets |-> Absent]
    /\ iledger = {}
    /\ tledger = {}
    /\ memory_tracking = <<>>
    /\ failed_imports = {}
    /\ pc = "idle"
    /\ loc = LocInit
    /\ ev = EvStep("init", Schema, "init")

\* bronze_to_silver.py over a bronze catalogue taken as given
Init ==
    /\ docs = [blob_name \in Blobs |-> Document(Items(1, "v0", {"name"}))]
    /\ bronze \in BronzeStates
    /\ Fresh

Next ==
    \/ StartRun
    \/ FuseGate(BOOLEAN)
    \/ FusePrepare
    \/ FuseCreate(BOOLEAN)
    \/ FuseInsert(BOOLEAN)
    \/ FuseFinish
    \/ CopyGate(BOOLEAN)
    \/ CopyPrepare
    \/ CopyCreate(BOOLEAN)
    \/ CopyBulk(BOOLEAN)
    \/ CopyRow(BOOLEAN)
    \/ CopyFinish
    \/ TransformExit
    \/ Crash
    \/ BronzeChange

Spec == Init /\ [][Next]_vars

\* import_json.py over an empty bronze_db
InitIngest ==
    /\ docs \in Containers
    /\ bronze = [t \in Tables |-> Absent]
    /\ Fresh

\* the process_blob calls of one process: main over the container, or the
\* same blob handed over twice
FileLists == {<<BlobPhb, BlobOther>>, <<BlobPhb, BlobPhb>>}

NextIngest ==
    \/ IngestMain(FileLists)
    \/ IngestGate(BOOLEAN)
    \/ IngestParse
    \/ IngestDrop
    \/ IngestCreate(BOOLEAN)
    \/ IngestRow(BOOLEAN)
    \/ IngestFallback(BOOLEAN)
    \/ IngestRecord
    \/ RawDrop
    \/ RawCreate
    \/ RawRow(BOOLEAN)
    \/ RawRecord
    \/ IngestExit
    \/ Crash
    \/ DocChange(Containers)

SpecIngest == InitIngest /\ [][NextIngest]_vars

\* --------------------------------------------------------------- the pipeline
\* import_json.py, then bronze_to_silver.py; the only fault is the death of
\* the running process, after which the pipeline is started again
AllFiles == <<BlobPhb, BlobOther>>

InitPipeline ==
    /\ docs \in FlatContainers
    /\ bronze = [t \in Tables |-> Absent]
    /\ Fresh

\* the pipeline is started, or started again, from its first process
PipelineIngest == IngestMain({AllFiles})

PipelineTransform ==
    /\ ev.op = "ingest_exit"
    /\ StartRun

\* a document is uploaded again once a run of the pipeline has ended
PipelineUpload ==
    /\ ev.op = "transform_exit"
    /\ DocChange(FlatContainers)

NextPipeline ==
    \/ PipelineIngest
    \/ IngestGate({TRUE})
    \/ IngestParse
    \/ IngestDrop
    \/ IngestCreate({TRUE})
    \/ IngestRow({TRUE})
    \/ IngestRecord
    \/ IngestExit
    \/ PipelineTransform
    \/ FuseGate({TRUE})
    \/ FusePrepare
    \/ FuseCreate({TRUE})
    \/ FuseInsert({TRUE})
    \/ FuseFinish
    \/ CopyGate({TRUE})
    \/ CopyPrepare
    \/ CopyCreate({TRUE})
    \/ CopyBulk({TRUE})
    \/ CopyFinish
    \/ TransformExit
    \/ Crash
    \/ PipelineUpload

SpecPipeline == InitPipeline /\ [][NextPipeline]_vars

\* ------------------------------------------------------- the upserts alone
\* arbitrary calls of update_transformation_status and update_import_status
HashA == [none |-> FALSE, data |-> "a"]
HashB == [none |-> FALSE, data |-> "b"]

Outcomes ==
    {[status |-> "in_progress", row_count |-> 0, error_message |-> NULL],
     [status |-> "error", row_count |-> 0, error_message |-> "failed"],
     [status |-> "success", row_count |-> MaxRows, error_message |-> NULL]}

TransformationKeys == {<<Schema, FusionTarget, "fusion">>, <<Schema, CopyTable, "copy">>}

InitUpsert ==
    /\ docs = [blob_name \in Blobs |-> Document(Items(1, "v0", {"name"}))]
    /\ bronze = [t \in Tables |-> Absent]
    /\ Fresh

UpsertTransformation ==
    /\ \E key \in TransformationKeys, source_hash \in {HashA, HashB}, o \in Outcomes :
        /\ tledger' = update_transformation_status(tledger, key[1], <<key[2]>>, key[1],
                          key[2], key[3], source_hash, o.row_count, o.status,
                          o.error_message)
        /\ ev' = [op |-> "update_transformation_status", key |-> key,
                  existed |-> Found(tledger, key[1], key[2], key[3]) # {},
                  source_hash |-> source_hash, row_count |-> o.row_count,
                  status |-> o.status, error_message |-> o.error_message]
    /\ UNCHANGED <<docs, bronze, silver, iledger, memory_tracking, failed_imports, pc, loc>>

UpsertImport ==
    /\ \E file_path \in Blobs, file_hash \in {HashA, HashB}, o \in Outcomes :
        LET target == TargetOf(file_path)
            done == update_import_status(memory_tracking, iledger, file_path, file_hash,
                        target.schema, target.table, o.row_count, o.status,
                        o.error_message)
        IN /\ memory_tracking' = done.memory
           /\ iledger' = done.ledger
           /\ ev' = [op |-> "update_import_status", key |-> file_path,
                     existed |-> ImportStatus(iledger, file_path) # "none",
                     file_hash |-> file_hash, row_count |-> o.row_count,
                     status |-> o.status, error_message |-> o.error_message]
    /\ UNCHANGED <<docs, bronze, silver, tledger, failed_imports, pc, loc>>

NextUpsert ==
    \/ UpsertTransformation
    \/ UpsertImport

SpecUpsert == InitUpsert /\ [][NextUpsert]_vars


\* ============================================================ the orchestrator
\* bronze_to_silver.main over several schemas.  Names are spelled out, so
\* that the prefix tests are the ones of the code.  create_fusion_table and
\* copy_table catch every exception (lines 293/454 and 464/587): a call is
\* its arguments, the tables it works on and its outcome.
SchemaMain == Spell("main")
SchemaSpells == Spell("spells")
SchemaBestiary == <<"b", "e", "s", "t", "i", "a", "r", "y">>
OrchSchemas == {SchemaMain, SchemaSpells, SchemaBestiary}

\* lines 769: the default list, without the schemas that are not modelled
DefaultSchemas == <<SchemaMain, SchemaBestiary, SchemaSpells>>

Fluff == <<"f", "l", "u", "f", "f", "_">>
Fusion == <<"f", "u", "s", "i", "o", "n", "_">>

TableFluffSpells == Fluff \o SchemaSpells \o <<"_", "a">>
TableMainA == SchemaMain \o <<"_", "a">>
TableBestiaryMm == SchemaBestiary \o <<"_", "m", "m">>

\* information_schema.tables per schema, in the order the store lists them
TableLists(schema) ==
    IF schema = SchemaMain THEN
        {<<>>, <<Spell("other")>>, <<TableMainA, Spell("other")>>}
    ELSE IF schema = SchemaSpells THEN
        {<<>>, <<TableFluffSpells>>,
         <<Spell("spells_phb"), TableFluffSpells, Spell("other")>>,
         <<Spell("other"), Spell("spells_xge"), Spell("spells_phb")>>,
         <<SchemaSpells, Fluff \o SchemaSpells>>}
    ELSE {<<>>, <<TableBestiaryMm>>}

Catalogues ==
    {c \in [OrchSchemas -> UNION {TableLists(schema) : schema \in OrchSchemas}] :
        \A schema \in OrchSchemas : c[schema] \in TableLists(schema)}

UnitOutcomes == {"success", "error"}

\* faulty variant of PartitionTables: the fluff test is not an elif, and the
\* last list takes what is left of the first test only
PartitionTables_NoElif(schema, tables) ==
    [schema_prefix_tables |->
        SelectSeq(tables, LAMBDA t : startswith(t, schema \o <<"_">>)),
     fluff_prefix_tables |->
        SelectSeq(tables, LAMBDA t : startswith(t, Fluff \o schema \o <<"_">>)),
     other_tables |->
        SelectSeq(tables, LAMBDA t : ~startswith(t, schema \o <<"_">>))]

\* get_all_tables, lines 222-234
PartitionTables(schema, tables) ==
    [schema_prefix_tables |->
        SelectSeq(tables, LAMBDA t : startswith(t, schema \o <<"_">>)),
     fluff_prefix_tables |->
        SelectSeq(tables, LAMBDA t : /\ ~startswith(t, schema \o <<"_">>)
                                     /\ startswith(t, Fluff \o schema \o <<"_">>)),
     other_tables |->
        SelectSeq(tables, LAMBDA t : /\ ~startswith(t, schema \o <<"_">>)
                                     /\ ~startswith(t, Fluff \o schema \o <<"_">>))]

\* lines 608-616
FusionName(schema) ==
    IF schema \in {SchemaBestiary, Spell("spells")}
    THEN IF schema = SchemaBestiary
         THEN Fusion \o <<"m", "o", "n", "s", "t", "e", "r", "s">>
         ELSE Fusion \o schema
    ELSE Fusion \o schema

\* create_fusion_table(schema, table_prefix, fusion_table_name): lines 295-305
\* list the tables again and keep those with the prefix
FusionCall(schema, tables, table_prefix, fusion_table_name) ==
    [fn |-> "create_fusion_table", schema |-> schema, target |-> fusion_table_name,
     tables |-> SelectSeq(tables, LAMBDA t : startswith(t, table_prefix))]

CopyCall(schema, table) ==
    [fn |-> "copy_table", schema |-> schema, target |-> table, tables |-> <<table>>]

\* process_schema, lines 601-624: the calls it makes, in order
SchemaCalls(schema, tables) ==
    LET p == PartitionTables(schema, tables)
    IN (IF p.schema_prefix_tables # <<>>
        THEN <<FusionCall(schema, tables, schema \o <<"_">>, FusionName(schema))>>
        ELSE <<>>)
       \o (IF p.fluff_prefix_tables # <<>>
           THEN <<FusionCall(schema, tables, Fluff \o schema \o <<"_">>,
                             Fusion \o Fluff \o schema)>>
           ELSE <<>>)
       \o [k \in 1..Len(p.other_tables) |-> CopyCall(schema, p.other_tables[k])]

\* main, lines 786-789
MainCalls(tables) == [k \in 1..Len(tables) |-> CopyCall(SchemaMain, tables[k])]

WithOutcomes(calls, outcomes) ==
    [k \in 1..Len(calls) |->
        [fn |-> calls[k].fn, schema |-> calls[k].schema, target |-> calls[k].target,
         tables |-> calls[k].tables, outcome |-> outcomes[k]]]

OrchEv(op, target, result, l) ==
    [op |-> op, target |-> target, result |-> result, schemas |-> l.schemas,
     catalogue |-> l.catalogue, calls |-> l.calls, failed_listings |-> l.failed_listings]

\* main, lines 744-772: the schemas that hold a table, in the order the store
\* lists them, or the default list; when the query raises, main returns 1
OrchStart(C, F) ==
    /\ pc = "idle"
    /\ \E catalogue \in C, discover_ok \in F :
        LET found == {schema \in OrchSchemas : catalogue[schema] # <<>>}
        IN \E order \in Orders(found) :
            LET l == [schemas |-> IF found = {} THEN DefaultSchemas ELSE order,
                      todo |-> IF found = {} THEN DefaultSchemas ELSE order,
                      catalogue |-> catalogue, calls |-> <<>>, failed_listings |-> {}]
            IN IF discover_ok
               THEN /\ pc' = "schemas"
                    /\ loc' = l
                    /\ ev' = OrchEv("main_start", <<>>, "run", l)
               ELSE /\ pc' = "idle"
                    /\ loc' = LocInit
                    /\ ev' = OrchEv("main_return", <<>>, "exit_1", [l EXCEPT !.schemas = <<>>])
    /\ UNCHANGED <<bronze, silver, tledger>>
    /\ UNCHANGED ingest_vars

\* main, lines 775-792: one schema of the loop.  The listing of schema main
\* is made by main itself and its failure ends the run (800-803); the listing
\* of another schema is made by process_schema, which catches it (626-628).
OrchSchema(F) ==
    /\ pc = "schemas"
    /\ loc.todo # <<>>
    /\ \E list_ok \in F :
        LET schema == Head(loc.todo)
            tables == loc.catalogue[schema]
            calls == IF schema = SchemaMain THEN MainCalls(tables)
                     ELSE SchemaCalls(schema, tables)
        IN IF list_ok
           THEN \E outcomes \in [1..Len(calls) -> UnitOutcomes] :
                   /\ pc' = "schemas"
                   /\ loc' = [loc EXCEPT !.todo = Tail(loc.todo),
                                         !.calls = loc.calls \o WithOutcomes(calls, outcomes)]
                   /\ ev' = OrchEv("schema", schema, "done", loc')
           ELSE IF schema = SchemaMain
           THEN /\ pc' = "idle"
                /\ loc' = LocInit
                /\ ev' = OrchEv("main_return", schema, "exit_1",
                                [loc EXCEPT !.failed_listings = loc.failed_listings \cup {schema}])
           ELSE /\ pc' = "schemas"
                /\ loc' = [loc EXCEPT !.todo = Tail(loc.todo),
                                      !.failed_listings = loc.failed_listings \cup {schema}]
                /\ ev' = OrchEv("schema", schema, "caught", loc')
    /\ UNCHANGED <<bronze, silver, tledger>>
    /\ UNCHANGED ingest_vars

\* main, lines 794-799
OrchReturn ==
    /\ pc = "schemas"
    /\ loc.todo = <<>>
    /\ pc' = "idle"
    /\ loc' = LocInit
    /\ ev' = OrchEv("main_return", <<>>, "exit_0", loc)
    /\ UNCHANGED <<bronze, silver, tledger>>
    /\ UNCHANGED ingest_vars

InitOrch ==
    /\ docs = [blob_name \in Blobs |-> Document(Items(1, "v0", {"name"}))]
    /\ bronze = [t \in Tables |-> Absent]
    /\ Fresh

NextOrch ==
    \/ OrchStart(Catalogues, BOOLEAN)
    \/ OrchSchema(BOOLEAN)
    \/ OrchReturn

SpecOrch == InitOrch /\ [][NextOrch]_vars


\* ------------------------------------------------------------ the two runs
\* import_json.py and bronze_to_silver.py run one after the other, any number
\* of times, with the faults of the statements; no process dies
SmallCatalogues ==
    {c \in Catalogues : /\ c[SchemaMain] = <<Spell("other")>>
                        /\ c[SchemaSpells] \in {<<>>, <<TableFluffSpells>>}
                        /\ c[SchemaBestiary] = <<>>}

InitRuns ==
    /\ docs \in Containers
    /\ bronze = [t \in Tables |-> Absent]
    /\ Fresh

NextRuns ==
    \/ IngestMain({AllFiles})
    \/ IngestGate(BOOLEAN)
    \/ IngestParse
    \/ IngestDrop
    \/ IngestCreate(BOOLEAN)
    \/ IngestRow(BOOLEAN)
    \/ IngestFallback(BOOLEAN)
    \/ IngestRecord
    \/ RawDrop
    \/ RawCreate
    \/ RawRow(BOOLEAN)
    \/ RawRecord
    \/ IngestExit
    \/ OrchStart(SmallCatalogues, BOOLEAN)
    \/ OrchSchema(BOOLEAN)
    \/ OrchReturn

SpecRuns == InitRuns /\ [][NextRuns]_vars

\* ------------------------------------------------------ the reconciler alone
\* collect_all_columns_from_tables over tables that declare the column
\* "name" with any of the data types below, or not at all
DataTypes == {"text", "jsonb", "integer", "bigint", "smallint", "interval", "boolean"}

ColumnLists == {<<IdCol>>} \cup {<<IdCol, <<"name", ty>>>> : ty \in DataTypes}

InitReconcile ==
    /\ docs = [blob_name \in Blobs |-> Document(Items(1, "v0", {"name"}))]
    /\ bronze \in [Tables -> {[exists |-> TRUE, acc |-> TRUE, cols |-> cols, rows |-> <<>>] :
                                 cols \in ColumnLists}]
    /\ Fresh

\* line 249, for the tables in any order
ReconcileStart ==
    /\ pc = "idle"
    /\ \E tables \in Orders(Tables) :
        /\ loc' = [LocInit EXCEPT !.existing_tables = tables, !.i = 1]
        /\ ev' = [op |-> "collect_start", tables |-> tables]
    /\ pc' = "collect"
    /\ UNCHANGED <<bronze, silver, tledger>>
    /\ UNCHANGED ingest_vars

\* lines 251-279: one table of the loop
ReconcileTable ==
    /\ pc = "collect"
    /\ loc.i <= Len(loc.existing_tables)
    /\ LET table == loc.existing_tables[loc.i]
           columns == get_table_columns(bronze, table)
           all_columns == AddColumns(loc.all_columns, columns)
       IN /\ loc' = [loc EXCEPT !.all_columns = all_columns, !.i = loc.i + 1]
          /\ ev' = [op |-> "collect_table", table |-> table, columns |-> columns,
                    before |-> loc.all_columns, after |-> all_columns]
    /\ pc' = "collect"
    /\ UNCHANGED <<bronze, silver, tledger>>
    /\ UNCHANGED ingest_vars

\* line 281
ReconcileReturn ==
    /\ pc = "collect"
    /\ loc.i > Len(loc.existing_tables)
    /\ pc' = "idle"
    /\ loc' = LocInit
    /\ ev' = [op |-> "collect_return", tables |-> loc.existing_tables,
              all_columns |-> loc.all_columns]
    /\ UNCHANGED <<bronze, silver, tledger>>
    /\ UNCHANGED ingest_vars

NextReconcile ==
    \/ ReconcileStart
    \/ ReconcileTable
    \/ ReconcileReturn

SpecReconcile == InitReconcile /\ [][NextReconcile]_vars

\* ================================================================== claims
GateOps == {"fuse_gate", "copy_gate"}

UnitType(target) == IF target = FusionTarget THEN "fusion" ELSE "copy"

\* the entry of the target's key holds status success with the fingerprint h
SuccessWith(ledger, target, h) ==
    \E e \in ledger : /\ e.source_schema = Schema
                      /\ e.target_table = target
                      /\ e.transformation_type = UnitType(target)
                      /\ e.status = "success"
                      /\ e.source_hash = h

Contributing(b, target) ==
    IF target = FusionTarget THEN get_all_tables(b).schema_prefix_tables
    ELSE SelectSeq(<<CopyTable>>, LAMBDA t : b[t].exists)

ExpectedRows(b, target) ==
    IF target = FusionTarget
    THEN LET tabs == Contributing(b, target)
             all_columns == collect_all_columns_from_tables(b, tabs)
         IN UNION {{[source_table |-> tabs[i], original_id |-> b[tabs[i]].rows[k].id,
                     vals |-> [c \in ColNames(all_columns) |->
                                 IF c \in ColNames(b[tabs[i]].cols)
                                 THEN Cell(b[tabs[i]].rows[k], c) ELSE NULL]] :
                        k \in 1..Len(b[tabs[i]].rows)} : i \in 1..Len(tabs)}
    ELSE SeqToSet(b[CopyTable].rows)

IsCurrent(b, sv, target) ==
    /\ sv[target].exists
    /\ SeqToSet(sv[target].rows) = ExpectedRows(b, target)
    /\ Len(sv[target].rows) = Cardinality(ExpectedRows(b, target))

CurrentHash(b, target) == calculate_tables_hash(b, Contributing(b, target), TRUE)

\* C2 as stated: between runs, a ledger entry with status success and the
\* fingerprint now computed for the contributing bronze tables implies that
\* the silver target holds exactly the rows now in those tables.
C2_LedgerImpliesCurrent ==
    pc = "idle" =>
        \A target \in Targets :
            (/\ Contributing(bronze, target) # <<>>
             /\ CurrentHash(bronze, target) # None
             /\ SuccessWith(tledger, target, CurrentHash(bronze, target)))
            => IsCurrent(bronze, silver, target)

\* C3: is_transformation_needed answers "not needed" exactly when the lookup
\* succeeds and the key's entry has status success and the given fingerprint
\* (so a missing entry, in_progress, error, another fingerprint and a failed
\* lookup all answer "needed"); right after success was recorded with a
\* fingerprint the check with that fingerprint answers "not needed".
C3_RerunDecision ==
    /\ \A target \in Targets : \A ok \in BOOLEAN :
          LET h == CurrentHash(bronze, target) IN
          (Contributing(bronze, target) # <<>> /\ h # None) =>
              (is_transformation_needed(tledger, Schema, target, UnitType(target), h, ok)
                  <=> ~(ok /\ SuccessWith(tledger, target, h)))
    /\ (ev.op \in {"fuse_finish", "copy_finish"} /\ ev.hash # None) =>
          ~is_transformation_needed(tledger, Schema, ev.target, UnitType(ev.target),
                                    ev.hash, TRUE)
    /\ (ev.op \in GateOps /\ ev.hash # None) =>
          (ev.result = "skip" <=>
              (ev.lookup_ok /\ ev.prev_status = "success" /\ ev.same_hash))

\* C3 witness: an entry recorded as success is found stale after a source
\* table changed, and the gate re-runs the transformation
C3_Witness ==
    /\ ev.op = "fuse_gate" /\ ev.result = "run" /\ ev.lookup_ok
    /\ ev.prev_status = "success" /\ ~ev.same_hash /\ ev.hash # None

ReturnResults == {"skip", "return", "error", "success"}

\* C4 as stated: an invocation that computed a fingerprint and passed the gate
\* has set the entry to success or error when it returns, and only the
\* statuses in_progress, success and error ever appear.
C4_NoReturnInProgress ==
    /\ \A e \in tledger : e.status \in {"in_progress", "success", "error"}
    /\ (ev.op \notin GateOps /\ ev.result \in ReturnResults /\ ev.hash # None) =>
          \A e \in Found(tledger, Schema, ev.target, UnitType(ev.target)) :
              e.status \in {"success", "error"}

\* C5 as stated: a stale in_progress entry whose fingerprint equals the
\* current one is not re-processed by the gate.
C5_StaleEqualSkipped ==
    (ev.op \in GateOps /\ ev.hash # None /\ ev.lookup_ok
        /\ ev.prev_status = "in_progress" /\ ev.same_hash)
    => ev.result = "skip"

\* C5 amended: a stale in_progress entry is re-processed by the gate whether
\* or not the current fingerprint differs from the stored one.
C5_StaleAlwaysRerun ==
    (ev.op \in GateOps /\ ev.hash # None /\ ev.prev_status = "in_progress")
    => (ev.result = "run"
        /\ \E e \in Found(tledger, Schema, ev.target, UnitType(ev.target)) :
              e.status = "in_progress" /\ e.source_hash = ev.hash)

\* C5 witness: the gate met a stale in_progress entry with the same
\* fingerprint and ran the fusion again
C5_Witness ==
    /\ ev.op = "fuse_gate" /\ ev.hash # None /\ ev.lookup_ok
    /\ ev.prev_status = "in_progress" /\ ev.same_hash /\ ev.result = "run"

\* rows of the fusion table that come from table t
FusionRowsOf(sv, t) == {k \in 1..Len(sv[FusionTarget].rows) :
                           sv[FusionTarget].rows[k].source_table = t}

RECURSIVE SumRows(_, _)
SumRows(b, tabs) == IF tabs = <<>> THEN 0 ELSE Len(b[Head(tabs)].rows) + SumRows(b, Tail(tabs))

\* C9: when the copy loop of a fuse ends and the bulk copy of every
\* contributing table went through, the fusion table holds one row per source
\* row: per table T as many rows tagged T as T has rows (the total is the sum),
\* each source id appears once as original_id, and a reconciled column that T
\* lacks is NULL in T's rows.
C9_Provenance ==
    (/\ pc = "fuse_insert" /\ loc.i > Len(loc.existing_tables)
     /\ loc.copied = SeqToSet(loc.existing_tables))
    => /\ Len(silver[FusionTarget].rows) = SumRows(bronze, loc.existing_tables)
       /\ \A t \in loc.copied :
            /\ Cardinality(FusionRowsOf(silver, t)) = Len(bronze[t].rows)
            /\ \A j \in 1..Len(bronze[t].rows) :
                 Cardinality({k \in FusionRowsOf(silver, t) :
                     silver[FusionTarget].rows[k].original_id = bronze[t].rows[j].id}) = 1
            /\ \A k \in FusionRowsOf(silver, t) :
                 \E j \in 1..Len(bronze[t].rows) :
                     /\ silver[FusionTarget].rows[k].original_id = bronze[t].rows[j].id
                     /\ \A c \in DOMAIN silver[FusionTarget].rows[k].vals :
                          silver[FusionTarget].rows[k].vals[c] =
                              IF c \in ColNames(bronze[t].cols)
                              THEN Cell(bronze[t].rows[j], c) ELSE NULL

\* C9 witness: both prefixed tables were bulk-copied, 2 + 1 rows
C9_Witness ==
    /\ pc = "fuse_insert" /\ loc.i > Len(loc.existing_tables)
    /\ loc.copied = {"spells_phb", "spells_xge"}
    /\ Len(silver[FusionTarget].rows) = 3
    /\ \E k \in FusionRowsOf(silver, "spells_phb") :
          silver[FusionTarget].rows[k].vals["level"] = NULL

\* entries of the import ledger for a path
ImportEntries(ledger, file_path) == {e \in ledger : e.file_path = file_path}

ImportSuccessWith(ledger, file_path, file_hash) ==
    \E e \in ledger : /\ e.file_path = file_path
                      /\ e.file_hash = file_hash
                      /\ e.status = "success"

\* the rows the first k items left in the table, by the statements issued
RECURSIVE SavedItems(_, _)
SavedItems(attempts, k) ==
    IF k = 0 THEN <<>>
    ELSE IF attempts[k][Len(attempts[k])] \in {"structured", "json_only"}
         THEN Append(SavedItems(attempts, k - 1), k)
         ELSE SavedItems(attempts, k - 1)

\* C6: in the pipeline, where the running process may die at any step and the
\* pipeline is then started again over the same documents, a unit is skipped
\* only when its target is complete, and when the pipeline ends every bronze
\* table holds the rows of its document, every silver target holds the rows of
\* its bronze sources, and both ledgers hold success with the current
\* digests and row counts: the state an uninterrupted run ends in.
C6_RestartSafety ==
    /\ (ev.op \in GateOps /\ ev.result = "skip") => IsCurrent(bronze, silver, ev.target)
    /\ (ev.op = "ingest_gate" /\ ev.result = "skip") =>
          LET t == TargetOf(ev.target).table
          IN /\ bronze[t].exists
             /\ Len(bronze[t].rows) = Len(docs[ev.target].items)
    /\ ev.op = "transform_exit" =>
          /\ \A blob_name \in Blobs :
                LET t == TargetOf(blob_name).table
                    items == docs[blob_name].items
                IN /\ bronze[t].exists
                   /\ bronze[t].cols = FlatCols(<<"name">>)
                   /\ Len(bronze[t].rows) = Len(items)
                   /\ \A k \in 1..Len(items) :
                         /\ bronze[t].rows[k].id = k
                         /\ Cell(bronze[t].rows[k], "name") = items[k].v
                         /\ Cell(bronze[t].rows[k], "json_data") = items[k].v
                   /\ ImportEntries(iledger, blob_name) =
                         {[file_path |-> blob_name,
                           file_hash |-> calculate_file_hash(docs[blob_name]),
                           schema_name |-> Schema, table_name |-> t,
                           row_count |-> Len(items), status |-> "success",
                           error_message |-> NULL]}
          /\ \A target \in Targets :
                /\ IsCurrent(bronze, silver, target)
                /\ Found(tledger, Schema, target, UnitType(target)) =
                      {[source_schema |-> Schema,
                        source_tables |-> Contributing(bronze, target),
                        target_schema |-> Schema, target_table |-> target,
                        transformation_type |-> UnitType(target),
                        source_hash |-> CurrentHash(bronze, target),
                        row_count |-> Cardinality(ExpectedRows(bronze, target)),
                        status |-> "success", error_message |-> NULL]}
          /\ Cardinality(tledger) = 2 /\ Cardinality(iledger) = 2

\* C6 witness: the pipeline started again finds the fusion in_progress and its
\* target dropped by the run that died, and runs the fusion again
C6_Witness ==
    /\ ev.op = "fuse_gate" /\ ev.result = "run" /\ ev.prev_status = "in_progress"
    /\ ev.same_hash
    /\ ~silver[FusionTarget].exists

C10_RowFaultIsolation ==
    (pc \in {"rows", "fallback"} \/ ev.op = "ingest_record") =>
        LET t == TargetOf(loc.blob_name).table
            items == loc.array_data
            attempts == loc.attempts
            saved == SavedItems(attempts, IF pc = "fallback" THEN Len(attempts) - 1
                                          ELSE Len(attempts))
        IN /\ \A k \in 1..Len(attempts) :
                 \/ attempts[k] \in {<<"structured">>,
                                     <<"structured_failed", "json_only">>,
                                     <<"structured_failed", "json_only_failed">>}
                 \/ /\ attempts[k] = <<"structured_failed">>
                    /\ pc = "fallback" /\ k = loc.i /\ k = Len(attempts)
           /\ Len(bronze[t].rows) = Len(saved)
           /\ \A j \in 1..Len(saved) :
                 LET row == bronze[t].rows[j]
                     k == saved[j]
                 IN /\ Cell(row, "json_data") = items[k].v
                    /\ \A c \in items[k].keys :
                          Cell(row, c) = IF attempts[k] = <<"structured">>
                                         THEN items[k].v ELSE NULL
           /\ pc = "rows" => (loc.inserted_count = Len(saved) /\ loc.i = Len(attempts) + 1)
           /\ ev.op = "ingest_record" =>
                 /\ Len(attempts) = Len(items)
                 /\ \E e \in ImportEntries(iledger, loc.blob_name) :
                       /\ e.status = "success"
                       /\ e.row_count = Len(saved)
                       /\ (\A k \in 1..Len(attempts) :
                              attempts[k][Len(attempts[k])] # "json_only_failed")
                          => e.row_count = Len(items)

\* C10 witness: of two items the first was saved by the retry and the second
\* by its structured insert, and the ledger counts two rows
C10_Witness ==
    /\ ev.op = "ingest_record"
    /\ loc.attempts = <<<<"structured_failed", "json_only">>, <<"structured">>>>
    /\ \E e \in ImportEntries(iledger, loc.blob_name) :
          e.status = "success" /\ e.row_count = 2
    /\ Len(bronze[TargetOf(loc.blob_name).table].rows) = 2

ExpectedCalls(schema, catalogue) ==
    IF schema = SchemaMain THEN MainCalls(catalogue[schema])
    ELSE SchemaCalls(schema, catalogue[schema])

Attempted(calls, call) ==
    \E j \in 1..Len(calls) : /\ calls[j].fn = call.fn
                             /\ calls[j].schema = call.schema
                             /\ calls[j].target = call.target
                             /\ calls[j].tables = call.tables

\* C12 as stated: when main returns, the fuse and copy calls of every
\* discovered schema whose own tables could be listed have been made,
\* whatever the outcomes of the calls and the listings of the schemas before it.
C12_AllUnitsAttempted ==
    ev.op = "main_return" =>
        \A schema \in SeqToSet(ev.schemas) \ ev.failed_listings :
            \A k \in 1..Len(ExpectedCalls(schema, ev.catalogue)) :
                Attempted(ev.calls, ExpectedCalls(schema, ev.catalogue)[k])

Handling(calls, schema, t) ==
    {j \in 1..Len(calls) : calls[j].schema = schema /\ t \in SeqToSet(calls[j].tables)}

\* the one route the partition names for table t of a schema
Route(schema, t) ==
    IF schema = SchemaMain THEN [fn |-> "copy_table", target |-> t]
    ELSE IF startswith(t, schema \o <<"_">>)
    THEN [fn |-> "create_fusion_table", target |-> FusionName(schema)]
    ELSE IF startswith(t, Fluff \o schema \o <<"_">>)
    THEN [fn |-> "create_fusion_table", target |-> Fusion \o Fluff \o schema]
    ELSE [fn |-> "copy_table", target |-> t]

\* C14: once the tables of a schema were listed and its calls made, every
\* table of the schema is worked on by exactly one call, the one of its route
\* (schema main: its own copy; otherwise the fusion of the "<schema>_" tables,
\* the separate fusion of the "fluff_<schema>_" tables, or its own copy), the
\* two fusions have different targets, and no call works on anything else.
C14_Partition ==
    ev.op \in {"schema", "main_return"} =>
        \A schema \in OrchSchemas :
            ((\E j \in 1..Len(ev.calls) : ev.calls[j].schema = schema)
             \/ (ev.op = "schema" /\ ev.target = schema /\ ev.result = "done"))
            => /\ \A t \in SeqToSet(ev.catalogue[schema]) :
                     /\ Cardinality(Handling(ev.calls, schema, t)) = 1
                     /\ \A j \in Handling(ev.calls, schema, t) :
                           /\ ev.calls[j].fn = Route(schema, t).fn
                           /\ ev.calls[j].target = Route(schema, t).target
                           /\ ev.calls[j].fn = "copy_table" => ev.calls[j].tables = <<t>>
               /\ \A j \in 1..Len(ev.calls) :
                     ev.calls[j].schema = schema =>
                        /\ ev.calls[j].tables # <<>>
                        /\ SeqToSet(ev.calls[j].tables) \subseteq SeqToSet(ev.catalogue[schema])
               /\ \A i, j \in 1..Len(ev.calls) :
                     (/\ i # j /\ ev.calls[i].schema = schema /\ ev.calls[j].schema = schema
                      /\ ev.calls[i].fn = "create_fusion_table"
                      /\ ev.calls[j].fn = "create_fusion_table")
                     => ev.calls[i].target # ev.calls[j].target

\* C14 witness: a schema with a prefixed table, a fluff table and another
\* table got its three calls, after schema main got its copies
C14_Witness ==
    /\ ev.op = "schema" /\ ev.target = SchemaSpells /\ ev.result = "done"
    /\ ev.catalogue[SchemaSpells] = <<Spell("spells_phb"), TableFluffSpells, Spell("other")>>
    /\ Cardinality({j \in 1..Len(ev.calls) : ev.calls[j].schema = SchemaSpells}) = 3
    /\ Cardinality({j \in 1..Len(ev.calls) : ev.calls[j].schema = SchemaMain}) = 2

\* the type a column list gives a column (names are unique within a list)
TypeOf(cols, name) == cols[CHOOSE k \in 1..Len(cols) : cols[k][1] = name][2]

\* the precedence as stated, on type names without regard to case
StatedMerge(existing, col_type) ==
    IF Upper(existing) = Spell("TEXT") \/ Upper(col_type) = Spell("TEXT") THEN Spell("TEXT")
    ELSE IF Upper(existing) = Spell("JSONB") \/ Upper(col_type) = Spell("JSONB")
    THEN Spell("JSONB")
    ELSE IF /\ ContainsINT(Upper(existing)) /\ ContainsINT(Upper(col_type))
            /\ (Upper(existing) = Spell("BIGINT") \/ Upper(col_type) = Spell("BIGINT"))
    THEN Spell("BIGINT")
    ELSE Upper(existing)

\* C15 as stated: for every table the reconciler takes in, a column that is
\* new gets the table's type, a column seen before gets TEXT if either type
\* is TEXT, else JSONB if either is JSONB, else BIGINT if both contain INT and
\* either is BIGINT, else the type seen first; id is never in the output.
C15_WideningAsStated ==
    ev.op = "collect_table" =>
        /\ "id" \notin ColNames(ev.after)
        /\ \A k \in 1..Len(ev.columns) :
              LET name == ev.columns[k][1]
                  col_type == ev.columns[k][2]
              IN name # "id" =>
                    /\ name \in ColNames(ev.after)
                    /\ Upper(TypeOf(ev.after, name)) =
                          IF name \in ColNames(ev.before)
                          THEN StatedMerge(TypeOf(ev.before, name), col_type)
                          ELSE Upper(col_type)

\* the reconciled types, by column name
TypeMap(cols) == [name \in ColNames(cols) |-> TypeOf(cols, name)]

\* C16 as stated: the reconciled type of every column is the same whatever
\* the order in which the contributing tables are taken.
C16_OrderIndependent ==
    ev.op = "collect_return" =>
        /\ ev.all_columns = collect_all_columns_from_tables(bronze, ev.tables)
        /\ \A tables \in Orders(Tables) :
              TypeMap(collect_all_columns_from_tables(bronze, tables)) = TypeMap(ev.all_columns)

\* the tables and the fingerprint of every target in every catalogue explored
Fingerprints ==
    [b \in BronzeStates |->
        [target \in Targets |-> [tables |-> Contributing(b, target),
                                 hash |-> CurrentHash(b, target)]]] @@ <<>>

\* b2 is b with one row more in one of the tables both catalogues hold
OneRowAppended(b, tabs, b2, tabs2) ==
    /\ tabs2 = tabs
    /\ \E t \in SeqToSet(tabs) :
          /\ Len(b2[t].rows) = Len(b[t].rows) + 1
          /\ \A u \in SeqToSet(tabs) :
                /\ b2[u].cols = b[u].cols
                /\ b2[u].acc = b[u].acc
                /\ u # t => Len(b2[u].rows) = Len(b[u].rows)

\* the two catalogues agree on the names, the row counts and the ordered
\* column definitions of their tables
SameTableInfos(b, tabs, b2, tabs2) ==
    /\ SeqToSet(tabs2) = SeqToSet(tabs)
    /\ \A t \in SeqToSet(tabs) :
          /\ Len(b2[t].rows) = Len(b[t].rows)
          /\ b2[t].cols = b[t].cols

\* C17: the fingerprint of a target is the same for every order in which its
\* tables are enumerated; two catalogues get the same fingerprint exactly
\* when they agree on the names, the row counts and the ordered column
\* definitions of the tables; one row more in a table gives another
\* fingerprint, for which an entry recorded as success is found stale; and a
\* gate that meets a success entry skips exactly when the fingerprint it
\* computed is the recorded one.
C17_FingerprintSensitivity ==
    /\ \A target \in Targets :
          LET tabs == Contributing(bronze, target)
              h == CurrentHash(bronze, target)
          IN (tabs # <<>> /\ h # None) =>
                /\ \A order \in Orders(SeqToSet(tabs)) :
                      calculate_tables_hash(bronze, order, TRUE) = h
                /\ \A b2 \in BronzeStates :
                      LET tabs2 == Fingerprints[b2][target].tables
                          h2 == Fingerprints[b2][target].hash
                      IN (tabs2 # <<>> /\ h2 # None) =>
                            /\ (h2 = h) <=> SameTableInfos(bronze, tabs, b2, tabs2)
                            /\ OneRowAppended(bronze, tabs, b2, tabs2) =>
                                  /\ h2 # h
                                  /\ SuccessWith(tledger, target, h) =>
                                        \A ok \in BOOLEAN :
                                           is_transformation_needed(tledger, Schema, target,
                                               UnitType(target), h2, ok)
    /\ (ev.op \in GateOps /\ ev.hash # None /\ ev.lookup_ok /\ ev.prev_status = "success") =>
          /\ ev.result = (IF ev.same_hash THEN "skip" ELSE "run")
          /\ ev.hash = CurrentHash(bronze, ev.target)

\* C17 witness: a fusion recorded as success over one row of spells_phb is
\* run again after a row was appended to the table
C17_Witness ==
    /\ ev.op = "fuse_gate" /\ ev.result = "run" /\ ev.prev_status = "success"
    /\ ev.lookup_ok /\ ev.hash # None /\ ~ev.same_hash
    /\ Len(bronze["spells_phb"].rows) = 2
    /\ bronze["spells_xge"].exists
    /\ silver[FusionTarget].exists /\ Len(silver[FusionTarget].rows) = 2

\* ============================================== item normalisation (265-272)
MaxFields == 3

\* the values json.loads returns: a scalar, a list of items, or an object,
\* of which the code looks at data.values() only, in the order of the document
JScalar(s) == [kind |-> "scalar", v |-> s, items |-> <<>>, values |-> <<>>]
JList(items) == [kind |-> "list", v |-> NULL, items |-> items, values |-> <<>>]
JDict(values) == [kind |-> "dict", v |-> NULL, items |-> <<>>, values |-> values]

JItemA == JDict(<<JScalar("a")>>)
JItemB == JDict(<<JScalar("b")>>)

FieldValues == {JScalar("s"), JList(<<>>), JList(<<JItemA>>), JList(<<JItemB>>)}

Roots ==
    {JScalar("s"), JScalar(NULL)}
    \cup {JList(<<>>), JList(<<JItemA>>), JList(<<JItemA, JItemB>>)}
    \cup UNION {{JDict(values) : values \in [1..n -> FieldValues]} : n \in 0..MaxFields}

isinstance(v, kind) == v.kind = kind

\* lines 265-272
array_data(data) ==
    IF isinstance(data, "list") THEN data.items
    ELSE IF /\ isinstance(data, "dict")
            /\ \E i \in 1..Len(data.values) : isinstance(data.values[i], "list")
         THEN LET first == CHOOSE i \in 1..Len(data.values) :
                              /\ isinstance(data.values[i], "list")
                              /\ \A j \in 1..(i - 1) : ~isinstance(data.values[j], "list")
              IN data.values[first].items
    ELSE <<data>>

InitNormalize ==
    /\ docs \in {[blob_name \in Blobs |-> IF blob_name = BlobPhb THEN data ELSE JList(<<>>)] :
                    data \in Roots}
    /\ bronze = [t \in Tables |-> Absent]
    /\ Fresh

\* line 248
NormalizeLoad ==
    /\ pc = "idle"
    /\ pc' = "loaded"
    /\ loc' = [LocInit EXCEPT !.blob_name = BlobPhb]
    /\ ev' = [op |-> "json_loads", data |-> docs[BlobPhb]]
    /\ UNCHANGED <<bronze, silver, tledger>>
    /\ UNCHANGED ingest_vars

\* lines 265-272
NormalizeItems ==
    /\ pc = "loaded"
    /\ pc' = "normalized"
    /\ loc' = [loc EXCEPT !.array_data = array_data(docs[loc.blob_name])]
    /\ ev' = [op |-> "normalize", data |-> docs[loc.blob_name],
              array_data |-> array_data(docs[loc.blob_name])]
    /\ UNCHANGED <<bronze, silver, tledger>>
    /\ UNCHANGED ingest_vars

NextNormalize ==
    \/ NormalizeLoad
    \/ NormalizeItems

SpecNormalize == InitNormalize /\ [][NextNormalize]_vars

\* the list-valued fields of an object
ListFields(data) == {i \in 1..Len(data.values) : isinstance(data.values[i], "list")}

\* C18: a root that is a list is the item array; an object with exactly one
\* list-valued field yields that list; every other root (a scalar, an object
\* with no list-valued field, an object with two or more of them) is wrapped
\* whole as a single-item array.
C18_ItemNormalization ==
    ev.op = "normalize" =>
        ev.array_data =
            (IF isinstance(ev.data, "list") THEN ev.data.items
             ELSE IF isinstance(ev.data, "dict") /\ Cardinality(ListFields(ev.data)) = 1
                  THEN ev.data.values[CHOOSE i \in ListFields(ev.data) : TRUE].items
             ELSE <<ev.data>>)

\* ===================================== two documents of one group (243-245)
\* a second document of the group spells, named with an underscore where
\* BlobPhb has a hyphen
BlobPhbUnderscore == <<"data", "spells", "spells_phb.json">>

TwinBlobs == {BlobPhb, BlobPhbUnderscore}

\* well-formed documents of one or more items; the two blobs differ in content
TwinContainers ==
    {[blob_name \in TwinBlobs |->
         IF blob_name = BlobPhb THEN Document(Items(n, "v0", {"name"}))
         ELSE Document(Items(m, "v1", {"name"}))] : n, m \in 1..MaxRows}

TwinFileLists == {<<BlobPhb, BlobPhbUnderscore>>, <<BlobPhbUnderscore, BlobPhb>>}

InitTwins ==
    /\ docs \in TwinContainers
    /\ bronze = [t \in Tables |-> Absent]
    /\ Fresh

NextTwins ==
    \/ IngestMain(TwinFileLists)
    \/ IngestGate({TRUE})
    \/ IngestParse
    \/ IngestDrop
    \/ IngestCreate({TRUE})
    \/ IngestRow({TRUE})
    \/ IngestRecord
    \/ IngestExit

SpecTwins == InitTwins /\ [][NextTwins]_vars

\* the (group, document-name) pair of a blob path
Identity(blob_name) == <<blob_name[Len(blob_name) - 1], blob_name[Len(blob_name)]>>

\* the ledger records the table as the successful import of another path
RecordedForAnother(t, blob_name) ==
    \E e \in iledger : /\ e.status = "success"
                       /\ e.file_path # blob_name
                       /\ Identity(e.file_path) # Identity(blob_name)
                       /\ e.table_name = t

\* C19: documents with different (group, document-name) pairs have different
\* bronze targets, so no step of the ingest of one document path drops or
\* rewrites a bronze table that the ledger records as the successful import
\* of another document path.
C19_OneTablePerDocument ==
    [][\A t \in Tables :
          (bronze'[t] # bronze[t]) => ~RecordedForAnother(t, loc.blob_name)]_vars

\* ============================================ the identifier sanitizer (62-92)
MaxLen == 3

\* the characters of the names explored: letters of both cases that spell
\* reserved words, a digit, and characters that are not alphanumeric
InputChars == {"a", "s", "A", "S", "3", "-", "_"}

NameSelect == <<"s", "e", "l", "e", "c", "t">>
NameNotes ==
    <<"3", "-", "s", "e", "s", "s", "i", "o", "n", "'", "s", " ", "n", "o", "t", "e", "s">>

Names ==
    UNION {[1..n -> InputChars] : n \in 0..MaxLen} \cup {NameSelect, NameNotes}

InitSanitize ==
    /\ docs = [blob_name \in Blobs |-> Document(Items(1, "v0", {"name"}))]
    /\ bronze = [t \in Tables |-> Absent]
    /\ Fresh

\* one call of sanitize_name
SanitizeName ==
    /\ pc = "idle"
    /\ pc' = "sanitized"
    /\ \E name \in Names :
          ev' = [op |-> "sanitize_name", name |-> name, result |-> sanitize_name(name)]
    /\ UNCHANGED <<docs, bronze, silver, iledger, tledger, memory_tracking,
                   failed_imports, loc>>

\* the caller goes on with the identifier
SanitizeReturn ==
    /\ pc = "sanitized"
    /\ pc' = "idle"
    /\ ev' = EvStep("sanitize_return", Schema, "returned")
    /\ UNCHANGED <<docs, bronze, silver, iledger, tledger, memory_tracking,
                   failed_imports, loc>>

NextSanitize ==
    \/ SanitizeName
    \/ SanitizeReturn

SpecSanitize == InitSanitize /\ [][NextSanitize]_vars

\* the name with every non-alphanumeric character replaced by '_'
Replaced(name) == [i \in 1..Len(name) |-> IF isalnum(name[i]) THEN name[i] ELSE "_"]

\* C20: for every input sanitize_name returns a non-empty lower-case string:
\* the input with every non-alphanumeric character replaced by '_', prefixed
\* with 'c_' when that is empty (c_empty), begins with a digit or is a
\* reserved word, and lower-cased; so the output never begins with a digit
\* and is never a reserved word; "3-session's notes" gives
\* "c_3_session_s_notes", "select" gives "c_select" and "" gives "c_empty".
C20_Sanitizer ==
    ev.op = "sanitize_name" =>
        LET name == ev.name
            result == ev.result
            r == Replaced(name)
            prefixed == r = <<>> \/ isdigit(r[1]) \/ lower(r) \in reserved
        IN /\ result # <<>>
           /\ \A i \in 1..Len(result) : result[i] \notin UpperCase
           /\ \A i \in 1..Len(result) : isalnum(result[i]) \/ result[i] = "_"
           /\ r = <<>> => result = <<"c", "_", "e", "m", "p", "t", "y">>
           /\ (r # <<>> /\ prefixed) =>
                 /\ Len(result) = Len(name) + 2
                 /\ result[1] = "c" /\ result[2] = "_"
                 /\ \A i \in 1..Len(name) : result[i + 2] = LowerChar(r[i])
           /\ ~prefixed =>
                 /\ Len(result) = Len(name)
                 /\ \A i \in 1..Len(name) : result[i] = LowerChar(r[i])
           /\ ~isdigit(result[1])
           /\ result \notin reserved
           /\ name = NameNotes =>
                 result = <<"c", "_", "3", "_", "s", "e", "s", "s", "i", "o", "n", "_", "s",
                            "_", "n", "o", "t", "e", "s">>
           /\ name = NameSelect => result = <<"c", "_", "s", "e", "l", "e", "c", "t">>
           /\ name = <<>> => result = <<"c", "_", "e", "m", "p", "t", "y">>

\* C20 witness: a reserved word written in capitals was prefixed and lower-cased
C20_Witness ==
    /\ ev.op = "sanitize_name"
    /\ ev.name = <<"A", "S">>
    /\ ev.result = <<"c", "_", "a", "s">>

\* ==================================================== flatten_json (94-130)
MaxDepth == 3

MAX_KEY_LENGTH == 58

\* an object with its keys in document order
JObject(keys, values) ==
    [kind |-> "dict", v |-> NULL, items |-> <<>>, values |-> values, keys |-> keys]

\* n objects nested in one another around a scalar
RECURSIVE Chain(_)
Chain(n) == IF n = 0 THEN JScalar("s") ELSE JObject(<<"name">>, <<Chain(n - 1)>>)

\* the items explored
FlattenValues ==
    {Chain(n) : n \in 0..MaxDepth}
    \cup {JObject(<<"name", "id">>, <<Chain(n), JScalar("t")>>) : n \in 0..(MaxDepth - 1)}
    \cup {JObject(<<key>>, <<JList(<<Chain(n)>>)>>) :
             key \in {"id", "data"}, n \in 0..(MaxDepth - 2)}
    \cup {JObject(<<"spells-phb", "spells_phb">>, <<JScalar("s"), JScalar("t")>>),
          JObject(<<"name", "data">>, <<JScalar("s"), JList(<<JScalar("t")>>)>>),
          JObject(<<>>, <<>>), JList(<<>>), JList(<<JScalar("s")>>)}

Max(S) == IF S = {} THEN 0 ELSE CHOOSE n \in S : \A m \in S : m <= n

\* the calls nested in one another that a traversal of x makes
RECURSIVE Depth(_)
Depth(x) ==
    IF isinstance(x, "dict") THEN 1 + Max({Depth(x.values[i]) : i \in 1..Len(x.values)})
    ELSE IF isinstance(x, "list") THEN 1 + Max({Depth(x.items[i]) : i \in 1..Len(x.items)})
    ELSE 1

Take(s, n) == SubSeq(s, 1, Min(n, Len(s)))

\* name[:-1]
DropLast(name) == IF name = <<>> THEN <<>> ELSE SubSeq(name, 1, Len(name) - 1)

\* json.dumps: the serialized text stands for the value it was made from
dumps(x) == [json |-> x]

JsonData == <<"j", "s", "o", "n", "_", "d", "a", "t", "a">>

\* lines 100-121: _flatten(x, name), writing into out
RECURSIVE FlattenInto(_, _, _)
RECURSIVE FlattenKeys(_, _, _, _)
FlattenInto(x, name, out) ==
    IF isinstance(x, "dict") THEN FlattenKeys(x, 1, name, out)
    ELSE IF isinstance(x, "list") THEN Put(out, DropLast(name), dumps(x))
    ELSE LET key == DropLast(name)
         IN IF key # <<>> THEN Put(out, key, x.v) ELSE out

\* lines 102-107: the keys of a dict from the i-th on
FlattenKeys(x, i, name, out) ==
    IF i > Len(x.keys) THEN out
    ELSE LET joined == name \o Take(sanitize_name(Spell(x.keys[i])), MAX_KEY_LENGTH) \o <<"_">>
             safe_name == IF Len(joined) > MAX_KEY_LENGTH
                          THEN Take(joined, MAX_KEY_LENGTH) \o <<"_">>
                          ELSE joined
         IN FlattenKeys(x, i + 1, name, FlattenInto(x.values[i], safe_name, out))

\* lines 123-130: the traversal raises RecursionError when it nests deeper
\* than the frames left; the handler then serializes obj, which nests as deep
\* and has no handler of its own
flatten_json_obj(obj, frames, dumps_frames) ==
    IF Depth(obj) <= frames
    THEN [raised |-> FALSE, caught |-> FALSE, out |-> FlattenInto(obj, <<>>, <<>>)]
    ELSE IF Depth(obj) <= dumps_frames
         THEN [raised |-> FALSE, caught |-> TRUE, out |-> Put(<<>>, JsonData, dumps(obj))]
    ELSE [raised |-> TRUE, caught |-> TRUE, out |-> <<>>]

InitFlatten ==
    /\ docs = [blob_name \in Blobs |-> Document(Items(1, "v0", {"name"}))]
    /\ bronze = [t \in Tables |-> Absent]
    /\ Fresh

\* line 248: json.loads returned obj with the recursion limit leaving room
\* for limit nested calls
FlattenLoads ==
    /\ pc = "idle"
    /\ pc' = "flatten"
    /\ \E obj \in FlattenValues, limit \in 1..(MaxDepth + 1), shared \in BOOLEAN :
          /\ Depth(obj) <= limit
          /\ ev' = [op |-> "json_loads", obj |-> obj, limit |-> limit, shared |-> shared]
    /\ UNCHANGED <<docs, bronze, silver, iledger, tledger, memory_tracking,
                   failed_imports, loc>>

\* lines 285 and 330: flatten_json(item); its own frame comes on top of the
\* frames of _flatten, and the encoder of json.dumps counts against the same
\* limit (CPython up to 3.11) or against one of its own (from 3.12 on)
FlattenCall ==
    /\ pc = "flatten"
    /\ pc' = "flattened"
    /\ LET frames == ev.limit - 1
           result == flatten_json_obj(ev.obj, frames,
                                      IF ev.shared THEN frames ELSE MaxDepth + 1)
       IN ev' = [op |-> "flatten_json", obj |-> ev.obj, raised |-> result.raised,
                 caught |-> result.caught, out |-> result.out]
    /\ UNCHANGED <<docs, bronze, silver, iledger, tledger, memory_tracking,
                   failed_imports, loc>>

FlattenReturn ==
    /\ pc = "flattened"
    /\ pc' = "idle"
    /\ ev' = EvStep("flatten_return", Schema, "returned")
    /\ UNCHANGED <<docs, bronze, silver, iledger, tledger, memory_tracking,
                   failed_imports, loc>>

NextFlatten ==
    \/ FlattenLoads
    \/ FlattenCall
    \/ FlattenReturn

SpecFlatten == InitFlatten /\ [][NextFlatten]_vars

\* C21: flatten_json returns a mapping for every parsed value and no
\* exception reaches the caller; when the traversal raised, the mapping has
\* the one column json_data, holding the serialized input.
C21_FlattenerNeverRaises ==
    ev.op = "flatten_json" =>
        /\ ~ev.raised
        /\ ev.caught => ev.out = Put(<<>>, JsonData, dumps(ev.obj))

\* C22: when a prefix-matching table is listed but not queryable, the fusion
\* of the remaining tables ends with a ledger entry of status success whose
\* fingerprint is the one computed over the accessible tables.
C22_InaccessibleSkipped ==
    [][(/\ pc = "fuse_insert"
        /\ ev'.op = "fuse_finish"
        /\ \E t \in SeqToSet(loc.prefix_tables) : ~bronze[t].acc)
       => SuccessWith(tledger', FusionTarget,
                      calculate_tables_hash(bronze, loc.existing_tables, TRUE))]_vars

\* the tables of the running fusion whose bulk copy failed
BulkFailed ==
    {t \in SeqToSet(loc.existing_tables) \ loc.copied :
        ColNames(SelectSeq(get_table_columns(bronze, t), IsNotId)) # {}}

\* what C23 promises at the end of a fusion
BulkFailureOutcome ==
    /\ \A t \in BulkFailed : FusionRowsOf(silver', t) = {}
    /\ \A t \in loc.copied : Cardinality(FusionRowsOf(silver', t)) = Len(bronze[t].rows)
    /\ Found(tledger', Schema, FusionTarget, "fusion") # {}
    /\ \A e \in Found(tledger', Schema, FusionTarget, "fusion") :
          /\ e.status = "success"
          /\ e.row_count = Len(silver'[FusionTarget].rows)

\* C23 as stated: when the bulk copy of a contributing table failed, the
\* fusion ends with no row of that table in the fusion table, with every row
\* of the tables whose bulk copy went through, and with a ledger entry of
\* status success whose row_count is the number of rows in the fusion table.
C23_BulkFailureAlwaysRecorded ==
    [][(pc = "fuse_insert" /\ ev'.op = "fuse_finish" /\ BulkFailed # {})
       => BulkFailureOutcome]_vars

\* C23 amended: the same, for a fusion whose fingerprint was computed.
C23_BulkFailureIsolated ==
    [][(pc = "fuse_insert" /\ ev'.op = "fuse_finish" /\ BulkFailed # {}
          /\ loc.source_hash # None)
       => BulkFailureOutcome]_vars

\* C23 witness: the bulk copy of spells_phb failed, spells_xge was copied and
\* the fusion was recorded as success
C23_Witness ==
    /\ ev.op = "fuse_finish" /\ ev.hash # None
    /\ bronze["spells_phb"].acc /\ bronze["spells_phb"].rows # <<>>
    /\ bronze["spells_phb"].cols = ShapeA
    /\ FusionRowsOf(silver, "spells_phb") = {}
    /\ FusionRowsOf(silver, "spells_xge") # {}
    /\ \E e \in tledger : /\ e.target_table = FusionTarget /\ e.status = "success"
                          /\ e.source_hash = ev.hash /\ e.row_count = 1

\* ================================== the row-by-row copy in batches (539-572)
\* the sizes of the source table: within one batch, a full batch, one row more
ChunkSizes == {1, BatchSize, BatchSize + 1}

\* SELECT ... LIMIT batch_size OFFSET offset has no ORDER BY: each query pages
\* through the rows in the order of its own scan, which starts at the first
\* row of the heap or further on and wraps around
ScanStarts == {0, 1}

Rotate(rows, k) ==
    IF k >= Len(rows) THEN rows
    ELSE SubSeq(rows, k + 1, Len(rows)) \o SubSeq(rows, 1, k)

\* the rows whose insert can be refused
FaultyIds == {1, BatchSize + 1}

InitChunk ==
    /\ docs = [blob_name \in Blobs |-> Document(Items(1, "v0", {"name"}))]
    /\ bronze \in {[t \in Tables |-> IF t = CopyTable THEN Table(ShapeA, n, "v0", TRUE)
                                      ELSE Absent] : n \in ChunkSizes}
    /\ Fresh

\* lines 552-557: one batch is read
ChunkFetch ==
    /\ pc = "copy_rows"
    /\ FetchBatch(bronze[CopyTable].rows, loc.offset) # <<>>
    /\ \E k \in ScanStarts :
          loc' = [loc EXCEPT !.array_data =
                      FetchBatch(Rotate(bronze[CopyTable].rows, k), loc.offset),
                             !.i = 1]
    /\ pc' = "copy_batch"
    /\ ev' = EvStep("copy_fetch", CopyTable, "batch")
    /\ UNCHANGED <<bronze, silver, tledger>>
    /\ UNCHANGED ingest_vars

\* lines 563-570: one row of the batch is inserted; after the last row the
\* offset moves on by batch_size
ChunkRow(F) ==
    /\ pc = "copy_batch"
    /\ LET row == loc.array_data[loc.i]
       IN \E insert_ok \in F \cup {TRUE} :
             /\ (~insert_ok) => row.id \in FaultyIds
             /\ IF insert_ok
                THEN /\ silver' = [silver EXCEPT ![CopyTable].rows = Append(@, row)]
                     /\ ev' = EvStep("copy_row", CopyTable, "inserted")
                ELSE /\ ev' = EvStep("copy_row", CopyTable, "row_failed")
                     /\ UNCHANGED silver
             /\ loc' = [loc EXCEPT !.i = IF loc.i < Len(loc.array_data) THEN @ + 1 ELSE 1,
                                   !.offset = IF loc.i < Len(loc.array_data)
                                              THEN @ ELSE @ + BatchSize,
                                   !.inserted_count = IF insert_ok THEN @ + 1 ELSE @,
                                   !.attempts = Append(@, row.id)]
             /\ pc' = IF loc.i < Len(loc.array_data) THEN "copy_batch" ELSE "copy_rows"
    /\ UNCHANGED <<bronze, tledger>>
    /\ UNCHANGED ingest_vars

NextChunk ==
    \/ StartRun
    \/ CopyGate({TRUE})
    \/ CopyPrepare
    \/ CopyCreate({TRUE})
    \/ CopyBulk({FALSE})
    \/ ChunkFetch
    \/ ChunkRow(BOOLEAN)
    \/ CopyFinish
    \/ TransformExit

SpecChunk == InitChunk /\ [][NextChunk]_vars

\* C24: when the bulk copy failed, the row-by-row copy ends (the empty batch
\* is reached) with every source row attempted exactly once and with a
\* ledger entry of status success whose row_count is the number of rows in
\* the target.
C24_ChunkedFallback ==
    [][(pc = "copy_rows" /\ ev'.op = "copy_finish")
       => /\ \A k \in 1..Len(bronze[CopyTable].rows) :
                Cardinality({j \in 1..Len(loc.attempts) :
                                loc.attempts[j] = bronze[CopyTable].rows[k].id}) = 1
          /\ Len(loc.attempts) = Len(bronze[CopyTable].rows)
          /\ \E e \in tledger' : /\ SameKey(e, Schema, CopyTable, "copy")
                                 /\ e.status = "success"
                                 /\ e.row_count = Len(silver'[CopyTable].rows)]_vars

\* ============== get_db_connection (50-125) and wait_for_database (421-473)
max_attempts == 30

retry_interval == 5

ConnectFunctions == {"get_db_connection", "wait_for_database"}

\* what one pass of the loop can meet: the connection; an OperationalError;
\* the database missing and created through postgres (get_db_connection,
\* lines 87-112); an exception that is not an OperationalError
AttemptOutcomes(fn) ==
    IF fn = "get_db_connection"
    THEN {"connected", "operational_error", "database_created", "other_error"}
    ELSE {"connected", "operational_error", "other_error"}

\* faulty variant of SleepAfter: no wait between attempts
SleepAfter_Never(fn, attempt, outcome) == 0

\* time.sleep(retry_interval) after the failed pass number attempt (counted
\* from 0): lines 118-120 and 467-469; get_db_connection goes on at once
\* after it created the database (continue, line 112)
SleepAfter(fn, attempt, outcome) ==
    IF outcome = "database_created" THEN 0
    ELSE IF attempt < max_attempts - 1 THEN retry_interval
    ELSE 0

\* get_db_connection catches psycopg2.OperationalError only (line 82);
\* wait_for_database catches every Exception (line 465)
Retried(fn, outcome) ==
    \/ outcome \in {"operational_error", "database_created"}
    \/ fn = "wait_for_database" /\ outcome = "other_error"

InitConnect ==
    /\ docs = [blob_name \in Blobs |-> Document(Items(1, "v0", {"name"}))]
    /\ bronze = [t \in Tables |-> Absent]
    /\ Fresh

\* main calls the function: bronze_to_silver.py 746, import_json.py 498
ConnectStart ==
    /\ pc = "idle"
    /\ pc' = "connect"
    /\ \E fn \in ConnectFunctions :
          /\ loc' = [fn |-> fn, attempt |-> 0, slept |-> 0]
          /\ ev' = [op |-> "connect_start", fn |-> fn]
    /\ UNCHANGED <<bronze, silver, tledger>>
    /\ UNCHANGED ingest_vars

\* one pass of the loop for attempt in range(max_attempts)
ConnectAttempt ==
    /\ pc = "connect"
    /\ loc.attempt < max_attempts
    /\ \E outcome \in AttemptOutcomes(loc.fn) :
          LET wait == IF outcome = "connected" \/ ~Retried(loc.fn, outcome) THEN 0
                      ELSE SleepAfter(loc.fn, loc.attempt, outcome)
          IN /\ pc' = IF outcome = "connected" THEN "connected"
                      ELSE IF Retried(loc.fn, outcome) THEN "connect"
                      ELSE "raised"
             /\ loc' = [loc EXCEPT !.attempt = @ + 1, !.slept = @ + wait]
             /\ ev' = [op |-> "connect_attempt", fn |-> loc.fn, attempt |-> loc.attempt + 1,
                       outcome |-> outcome, wait |-> wait]
    /\ UNCHANGED <<bronze, silver, tledger>>
    /\ UNCHANGED ingest_vars

\* lines 122 and 472-473: the loop is over, the function raises
ConnectExhausted ==
    /\ pc = "connect"
    /\ loc.attempt >= max_attempts
    /\ pc' = "raised"
    /\ loc' = loc
    /\ ev' = [op |-> "connect_raise", fn |-> loc.fn, attempt |-> loc.attempt]
    /\ UNCHANGED <<bronze, silver, tledger>>
    /\ UNCHANGED ingest_vars

\* bronze_to_silver.py 800-803 and 805-808, import_json.py 499-501: the
\* exception ends the run with exit code 1
ConnectFatal ==
    /\ pc = "raised"
    /\ pc' = "idle"
    /\ loc' = LocInit
    /\ ev' = [op |-> "connect_fatal", fn |-> loc.fn, attempt |-> loc.attempt,
              result |-> "exit_1"]
    /\ UNCHANGED <<bronze, silver, tledger>>
    /\ UNCHANGED ingest_vars

\* the connection is returned and the run goes on
ConnectReturn ==
    /\ pc = "connected"
    /\ pc' = "idle"
    /\ loc' = LocInit
    /\ ev' = [op |-> "connect_return", fn |-> loc.fn, attempt |-> loc.attempt,
              result |-> "connection"]
    /\ UNCHANGED <<bronze, silver, tledger>>
    /\ UNCHANGED ingest_vars

NextConnect ==
    \/ ConnectStart
    \/ ConnectAttempt
    \/ ConnectExhausted
    \/ ConnectFatal
    \/ ConnectReturn

SpecConnect == InitConnect /\ [][NextConnect]_vars

\* what C25 promises apart from the waits: at most max_attempts attempts,
\* the connection returned by the first attempt that succeeds, a raise after
\* the last failed attempt, and a raise ends the run with exit code 1
BoundedRetry ==
    /\ pc \in {"connect", "connected", "raised"} => loc.attempt <= max_attempts
    /\ ev.op = "connect_attempt" =>
          /\ ev.attempt \in 1..max_attempts
          /\ (ev.outcome = "connected") <=> (pc = "connected")
          /\ (ev.outcome # "connected" /\ ev.attempt = max_attempts) => pc \in {"connect", "raised"}
    /\ (pc = "connect" /\ loc.attempt = max_attempts) => ~ENABLED ConnectAttempt
    /\ ev.op = "connect_raise" => (ev.attempt = max_attempts /\ pc = "raised")
    /\ pc = "raised" => (ENABLED ConnectFatal /\ ~ENABLED ConnectAttempt)
    /\ ev.op = "connect_fatal" => ev.result = "exit_1"
    /\ ev.op = "connect_return" => ev.attempt <= max_attempts

InitStages ==
    /\ docs \in Containers
    /\ bronze \in {[t \in Tables |-> IF t = "spells_xge" THEN x ELSE Absent] :
                      x \in {Absent, Table(ShapeB, 1, "v0", TRUE)}}
    /\ Fresh

NextStages ==
    \/ IngestMain({AllFiles})
    \/ IngestGate({TRUE})
    \/ IngestParse
    \/ IngestDrop
    \/ IngestCreate(BOOLEAN)
    \/ IngestRow(BOOLEAN)
    \/ IngestFallback({TRUE})
    \/ IngestRecord
    \/ RawDrop
    \/ RawCreate
    \/ RawRow({TRUE})
    \/ RawRecord
    \/ IngestExit
    \/ StartRun
    \/ FuseGate({TRUE})
    \/ FusePrepare
    \/ FuseCreate({TRUE})
    \/ FuseInsert(BOOLEAN)
    \/ FuseFinish
    \/ CopyGate({TRUE})
    \/ CopyPrepare
    \/ CopyCreate({TRUE})
    \/ CopyBulk({TRUE})
    \/ CopyFinish
    \/ TransformExit

SpecStages == InitStages /\ [][NextStages]_vars

\* the step inserts a row into bronze table t / copies rows into the fusion table
RowInserted(t) == Len(bronze'[t].rows) > Len(bronze[t].rows)

BulkCopied == Len(silver'[FusionTarget].rows) > Len(silver[FusionTarget].rows)

\* the keys of all the items of the document being ingested
DocumentKeys ==
    UNION {DOMAIN flatten_json(docs[loc.blob_name].items[k]) :
              k \in 1..Len(docs[loc.blob_name].items)}

\* the first pass went over every item and the table holds a column for
\* every key of the document, and json_data
CreatedFromUnion(t) ==
    /\ bronze[t].exists
    /\ loc.array_data = docs[loc.blob_name].items
    /\ {ColName(c) : c \in DocumentKeys} \cup {"json_data"} \subseteq ColNames(bronze[t].cols)

\* the fusion table exists and holds every column of every accessible table
\* that matches the prefix
ReconciledAndCreated ==
    /\ pc = "fuse_insert"
    /\ silver[FusionTarget].exists
    /\ silver[FusionTarget].cols = FusionCols(loc.all_columns)
    /\ \A t \in SeqToSet(get_all_tables(bronze).schema_prefix_tables) :
          bronze[t].acc =>
             ColNames(bronze[t].cols) \ {"id"} \subseteq ColNames(silver[FusionTarget].cols)

\* C26 as stated: no row is inserted into a bronze table before every item
\* was flattened and the table was created from the union of their columns;
\* no table is bulk-copied into the fusion table before the reconciler went
\* over all accessible tables and the fusion table was created.
C26_AlwaysFromUnion ==
    [][/\ \A t \in Tables : RowInserted(t) => CreatedFromUnion(t)
       /\ BulkCopied => ReconciledAndCreated]_vars

\* C26 amended: the same, the bronze table being the one created from the
\* union of the columns or, on the raw JSON path, the one with json_data alone.
C26_TwoPassOrdering ==
    [][/\ \A t \in Tables :
             RowInserted(t) =>
                \/ CreatedFromUnion(t)
                \/ /\ pc = "raw_rows"
                   /\ bronze[t].exists /\ bronze[t].cols = RawCols
                   /\ loc.array_data = docs[loc.blob_name].items
       /\ BulkCopied => ReconciledAndCreated]_vars

\* C26 witness: the fusion table holds the rows of two tables with different
\* columns, under the columns of both, made from a document of two items
C26_Witness ==
    /\ silver[FusionTarget].exists
    /\ FusionRowsOf(silver, "spells_phb") # {}
    /\ Len(bronze["spells_phb"].rows) = 2
    /\ bronze["spells_phb"].cols # RawCols
    /\ FusionRowsOf(silver, "spells_xge") # {}
    /\ ColNames(bronze["spells_xge"].cols) # ColNames(bronze["spells_phb"].cols)

\* ================================== process_blob, item by item (276-362)
MaxItems == 2

\* the items explored: flat, with a key id holding text or a number, with
\* nested keys that join into a reserved word, empty
ItemValues ==
    {JObject(<<"name">>, <<JScalar("s")>>),
     JObject(<<"name", "id">>, <<JScalar("s"), JScalar("t")>>),
     JObject(<<"id">>, <<JScalar("3")>>),
     JObject(<<"current">>, <<JObject(<<"date">>, <<JScalar("t")>>)>>),
     JObject(<<>>, <<>>)}

ItemDocuments == UNION {[1..n -> ItemValues] : n \in 1..MaxItems}

\* the text PostgreSQL accepts as the input of an integer column
IsIntegerText(v) == v \in Digits

\* the number such a text stands for
IntegerValue(v) == IF v = "3" THEN 3 ELSE 0

ItemsTable == TargetOf(BlobPhb).table

ItemsLoc ==
    [array_data |-> <<>>, all_flats |-> <<>>, all_columns |-> {}, i |-> 1,
     inserted_count |-> 0, attempts |-> <<>>, nextval |-> 1]

InitItems ==
    /\ docs = [blob_name \in Blobs |-> Document(Items(1, "v0", {"name"}))]
    /\ bronze = [t \in Tables |-> Absent]
    /\ Fresh

\* lines 248-272: the document was parsed into array_data
ItemsLoad ==
    /\ pc = "idle"
    /\ pc' = "analyse"
    /\ \E items \in ItemDocuments :
          loc' = [ItemsLoc EXCEPT !.array_data = items]
    /\ ev' = EvStep("items_load", BlobPhb, "parsed")
    /\ UNCHANGED <<docs, bronze, silver, iledger, tledger, memory_tracking,
                   failed_imports>>

\* lines 282-290: one item of the first pass; flatten_json raises when the
\* json.dumps of its handler does (line 128), and the item is then skipped
ItemsAnalyse ==
    /\ pc = "analyse"
    /\ loc.i <= Len(loc.array_data)
    /\ \E raised \in BOOLEAN :
          LET flat == FlattenInto(loc.array_data[loc.i], <<>>, <<>>)
          IN IF raised
             THEN /\ loc' = [loc EXCEPT !.i = @ + 1]
                  /\ ev' = EvStep("items_analyse", BlobPhb, "raised")
             ELSE /\ loc' = [loc EXCEPT
                                !.i = @ + 1,
                                !.all_flats = Append(@, [flat |-> flat, of |-> loc.i]),
                                !.all_columns = @ \cup {Unspell(k) : k \in DOMAIN flat}]
                  /\ ev' = EvStep("items_analyse", BlobPhb, "flattened")
    /\ pc' = "analyse"
    /\ UNCHANGED <<docs, bronze, silver, iledger, tledger, memory_tracking,
                   failed_imports>>

\* lines 292-323: no column, or a CREATE TABLE naming a column twice, raises
\* and hands over to the raw path; the set is iterated in an order of its own
ItemsCreate ==
    /\ pc = "analyse"
    /\ loc.i > Len(loc.array_data)
    /\ \E order \in Orders(loc.all_columns) :
          LET cols == FlatCols(order)
          IN IF loc.all_columns = {}
             THEN /\ pc' = "raw"
                  /\ bronze' = bronze
                  /\ ev' = EvStep("items_create", BlobPhb, "no_column")
             ELSE IF Cardinality(ColNames(cols)) # Len(cols)
             THEN /\ pc' = "raw"
                  /\ bronze' = [bronze EXCEPT ![ItemsTable] = Absent]
                  /\ ev' = EvStep("items_create", BlobPhb, "create_failed")
             ELSE /\ pc' = "insert"
                  /\ bronze' = [bronze EXCEPT ![ItemsTable] =
                                   [exists |-> TRUE, acc |-> TRUE, cols |-> cols,
                                    rows |-> <<>>]]
                  /\ ev' = EvStep("items_create", BlobPhb, "created")
    /\ loc' = [loc EXCEPT !.i = 1]
    /\ UNCHANGED <<docs, silver, iledger, tledger, memory_tracking, failed_imports>>

\* zip(array_data, all_flats) stops with the shorter of the two
ZipLen == Min(Len(loc.array_data), Len(loc.all_flats))

\* an id no row of the table holds yet
IdFree(table, id) == \A k \in 1..Len(table.rows) : table.rows[k].id # id

\* the outcome of INSERT INTO table (named) VALUES (...): an error when a
\* named column is not there, when the value given for the integer column
\* id is not a number, or when the id, given or drawn from the sequence, is
\* already taken
InsertError(table, named, flat, nextval) ==
    \/ ~(named \subseteq ColNames(table.cols))
    \/ IF "id" \in named
       THEN \/ ~IsIntegerText(flat[Spell("id")])
            \/ ~IdFree(table, IntegerValue(flat[Spell("id")]))
       ELSE ~IdFree(table, nextval)

\* the INSERT drew a value from the sequence before it failed
DrewFromSequence(table, named) ==
    named \subseteq ColNames(table.cols) /\ "id" \notin named

\* lines 356-359 and 391-394: the row of INSERT INTO table (json_data)
JsonOnly(id, j) ==
    [id |-> id, named |-> {"json_data"}, flat_of |-> 0, json_of |-> j,
     mode |-> "json_only"]

\* lines 329-363: the i-th pair of the zip; the structured insert names the
\* keys of flat and json_data, its failure is followed by the JSON-only
\* insert, whose own failure is logged
ItemsInsert ==
    /\ pc = "insert"
    /\ loc.i <= ZipLen
    /\ LET table == bronze[ItemsTable]
           flat == loc.all_flats[loc.i].flat
           named == {Unspell(k) : k \in DOMAIN flat} \cup {"json_data"}
           structured ==
               [id |-> IF "id" \in named THEN IntegerValue(flat[Spell("id")])
                       ELSE loc.nextval,
                named |-> named, flat_of |-> loc.all_flats[loc.i].of,
                json_of |-> loc.i, mode |-> "structured"]
           next == IF DrewFromSequence(table, named) THEN loc.nextval + 1 ELSE loc.nextval
       IN IF ~InsertError(table, named, flat, loc.nextval)
          THEN /\ bronze' = [bronze EXCEPT ![ItemsTable].rows = Append(@, structured)]
               /\ loc' = [loc EXCEPT !.i = @ + 1, !.inserted_count = @ + 1,
                                     !.attempts = Append(@, loc.i), !.nextval = next]
               /\ ev' = [op |-> "items_insert", named |-> named, result |-> "inserted"]
          ELSE IF IdFree(table, next)
          THEN /\ bronze' = [bronze EXCEPT ![ItemsTable].rows =
                                Append(@, JsonOnly(next, loc.i))]
               /\ loc' = [loc EXCEPT !.i = @ + 1, !.inserted_count = @ + 1,
                                     !.attempts = Append(@, loc.i), !.nextval = next + 1]
               /\ ev' = [op |-> "items_insert", named |-> named, result |-> "fallback"]
          ELSE /\ bronze' = bronze
               /\ loc' = [loc EXCEPT !.i = @ + 1, !.attempts = Append(@, loc.i),
                                     !.nextval = next + 1]
               /\ ev' = [op |-> "items_insert", named |-> named, result |-> "lost"]
    /\ pc' = "insert"
    /\ UNCHANGED <<docs, silver, iledger, tledger, memory_tracking, failed_imports>>

\* lines 365-366: the count of the rows inserted is recorded as a success
ItemsRecord ==
    /\ pc = "insert"
    /\ loc.i > ZipLen
    /\ LET done == update_import_status(memory_tracking, iledger, BlobPhb,
                       [none |-> FALSE, data |-> loc.array_data],
                       TargetOf(BlobPhb).schema, ItemsTable, loc.inserted_count,
                       "success", NULL)
       IN /\ memory_tracking' = done.memory
          /\ iledger' = done.ledger
    /\ pc' = "recorded"
    /\ ev' = EvStep("items_record", BlobPhb, "success")
    /\ UNCHANGED <<docs, bronze, silver, tledger, failed_imports, loc>>

\* lines 368-405: the raw path drops the table, creates it with json_data
\* alone, inserts one row per item and records the success
ItemsRaw ==
    /\ pc = "raw"
    /\ LET n == Len(loc.array_data)
           rows == [j \in 1..n |-> JsonOnly(j, j)]
           done == update_import_status(memory_tracking, iledger, BlobPhb,
                       [none |-> FALSE, data |-> loc.array_data],
                       TargetOf(BlobPhb).schema, ItemsTable, n, "success", NULL)
       IN /\ bronze' = [bronze EXCEPT ![ItemsTable] =
                           [exists |-> TRUE, acc |-> TRUE, cols |-> RawCols, rows |-> rows]]
          /\ loc' = [loc EXCEPT !.inserted_count = n, !.attempts = [j \in 1..n |-> j],
                                !.nextval = n + 1]
          /\ memory_tracking' = done.memory
          /\ iledger' = done.ledger
    /\ pc' = "recorded"
    /\ ev' = EvStep("items_raw", BlobPhb, "success")
    /\ UNCHANGED <<docs, silver, tledger, failed_imports>>

NextItems ==
    \/ ItemsLoad
    \/ ItemsAnalyse
    \/ ItemsCreate
    \/ ItemsInsert
    \/ ItemsRecord
    \/ ItemsRaw

SpecItems == InitItems /\ [][NextItems]_vars

\* C27: the table created by the first pass holds one text column per
\* flattened key found, and json_data; every column named by a structured
\* insert of the second pass is one of these text columns, or json_data.
C27_BronzeTableShape ==
    (pc = "insert" /\ "op" \in DOMAIN ev /\ ev.op = "items_insert") =>
        LET cols == bronze[ItemsTable].cols
            text == {c \in SeqToSet(cols) : c[2] = "text"}
        IN /\ Cardinality(text) = Cardinality(loc.all_columns)
           /\ <<"json_data", "jsonb">> \in SeqToSet(cols)
           /\ \A c \in ev.named \ {"json_data"} : <<c, "text">> \in text

\* C30: every row of the structured path takes its flattened columns and
\* its json_data from the same item, and once the second pass is over every
\* item of the document got an insert attempt, whatever the first pass did.
C30_ItemRowAlignment ==
    /\ \A t \in Tables : \A k \in 1..Len(bronze[t].rows) :
          LET row == bronze[t].rows[k]
          IN ("mode" \in DOMAIN row /\ row.mode = "structured") =>
                row.flat_of = row.json_of
    /\ (pc = "recorded" /\ "nextval" \in DOMAIN loc) =>
          SeqToSet(loc.attempts) = 1..Len(loc.array_data)

\* the step drops the silver table target
Dropped(target) == silver[target] # Absent /\ silver'[target] = Absent

\* the entry of the target's key holds status in_progress with the fingerprint h
InProgressWith(ledger, target, h) ==
    \E e \in ledger : /\ e.source_schema = Schema
                      /\ e.target_table = target
                      /\ e.transformation_type = UnitType(target)
                      /\ e.status = "in_progress"
                      /\ e.source_hash = h

\* the target holds as many rows as the tables it is built from
Filled(b, sv, target) ==
    /\ sv[target].exists
    /\ Len(sv[target].rows) = SumRows(b, Fingerprints[b][target].tables)

\* C28: in fuse and copy a step that drops the silver target of a run that
\* computed a fingerprint finds the ledger entry in_progress with that
\* fingerprint; and in no state, during a run or after an interruption, does
\* the ledger hold status success with the current fingerprint while the
\* target table is missing or holds fewer rows than its sources.
C28_InProgressPrecedesDestruction ==
    /\ [][\A target \in Targets :
             (Dropped(target) /\ pc # "idle" /\ loc.source_hash # None)
                => InProgressWith(tledger, target, loc.source_hash)]_vars
    /\ [](\A target \in Targets :
             (/\ Fingerprints[bronze][target].tables # <<>>
              /\ Fingerprints[bronze][target].hash # None
              /\ SuccessWith(tledger, target, Fingerprints[bronze][target].hash))
             => Filled(bronze, silver, target))

\* the steps of a fuse or a copy that follow its gate
UnitSteps == {"fuse_prepare", "fuse_create", "fuse_insert",
              "copy_prepare", "copy_create", "copy_bulk", "copy_rows", "copy_finish"}

\* the step is the gate of a unit whose contributing tables were listed and
\* whose fingerprint could not be computed
GateWithoutFingerprint ==
    /\ pc \in GateOps /\ ev'.op = pc
    /\ ev'.result \notin {"no_tables", "inaccessible"}
    /\ ev'.hash = None

====
